---- MODULE Spec2Model ----
(***************************************************************************)
(* Time series accumulation and CBOR delta encoding of the AirVantage      *)
(* connector (avcDaemon/timeseriesData.c) together with the record push    *)
(* path (timeSeries_PushRecord -> avcClient_Push).                         *)
(*                                                                         *)
(* Strings are modelled as unary strings: [ch |-> c, len |-> n] is the     *)
(* character c repeated n times.  Two such strings are equal (strcmp == 0) *)
(* exactly when the records are equal.                                     *)
(* A Data_t value is [n |-> number, ch |-> character]: an int or float     *)
(* keeps its number in n, a bool keeps 0/1 in n, a string keeps its length *)
(* in n and its character in ch.                                           *)
(* A timestamp (uint64_t) is [hi |-> h, lo |-> l], standing for            *)
(* h * 2^32 + l; the timestamps of the model have l below 2^31 and h of 0  *)
(* or 1.  An int (int32_t) is a number of -2^31 .. 2^31 - 1.               *)
(* The CBOR output is a sequence of items [k, n, ch]; ItemSize gives the   *)
(* number of bytes tinycbor writes for an item, so two buffers hold the    *)
(* same bytes exactly when their item sequences are equal.                 *)
(***************************************************************************)
EXTENDS Integers, Sequences, FiniteSets, TLC

VARIABLES recRef, call, result, sent, pushInFlight, pushCallback,
          handlerCalls, writtenType,
          RecordRefMap, records, sessions, nextRef, refCall, daemon,
          pool, loop

(* the record references of the clients: the safe reference map, the live  *)
(* records it points to, the open client sessions, the next safe reference *)
(* to hand out, the last call made with a reference, and the daemon        *)
refVars == <<RecordRefMap, records, sessions, nextRef, refCall, daemon>>

vars == <<recRef, call, result, sent, pushInFlight, pushCallback,
          handlerCalls, writtenType, refVars, pool, loop>>

----------------------------------------------------------------------------
(* Program constants *)

MAX_CBOR_BUFFER_NUMBYTES == 4096

NUM_TIME_SERIES_MAPS == 3

LE_AVDATA_PATH_NAME_LEN == 511

LE_AVDATA_STRING_VALUE_LEN == 255

LE_OK == "LE_OK"
LE_NOT_FOUND == "LE_NOT_FOUND"
LE_OVERFLOW == "LE_OVERFLOW"
LE_NO_MEMORY == "LE_NO_MEMORY"
LE_FAULT == "LE_FAULT"
LE_BUSY == "LE_BUSY"

DATA_TYPE_INT == "DATA_TYPE_INT"
DATA_TYPE_BOOL == "DATA_TYPE_BOOL"
DATA_TYPE_STRING == "DATA_TYPE_STRING"
DATA_TYPE_FLOAT == "DATA_TYPE_FLOAT"

----------------------------------------------------------------------------
(* Strings and values *)

(* the empty string holds no character *)
Str(c, n) == [ch |-> IF n = 0 THEN "" ELSE c, len |-> n]

Min(a, b) == IF a < b THEN a ELSE b

(* le_utf8_Copy(dest, src, destSize): copies at most destSize - 1 bytes;   *)
(* LE_OVERFLOW when the source does not fit.                               *)
Utf8CopyResult(src, destSize) == IF src.len >= destSize THEN LE_OVERFLOW ELSE LE_OK

Utf8Copy(src, destSize) == Str(src.ch, Min(src.len, destSize - 1))

NumValue(v) == [n |-> v, ch |-> ""]

(* uint64_t: the two 32-bit halves of a timestamp, and their order *)
U64(h, l) == [hi |-> h, lo |-> l]

Less64(a, b) == a.hi < b.hi \/ (a.hi = b.hi /\ a.lo < b.lo)

(* int32_t *)
INT32_MAX == 2147483647

INT32_MIN == -2147483647 - 1

(* An int as two 16-bit halves, and the difference of two ints, which      *)
(* lies in -(2^32 - 1) .. 2^32 - 1, as [hi, lo] standing for               *)
(* hi * 2^16 + lo with lo in 0 .. 2^16 - 1.                                *)
Half == 65536

HiHalf(v) == v \div Half

LoHalf(v) == v % Half

Borrow(a, b) == IF LoHalf(a) < LoHalf(b) THEN 1 ELSE 0

ExactDifference(a, b) ==
    [hi |-> HiHalf(a) - HiHalf(b) - Borrow(a, b),
     lo |-> LoHalf(a) - LoHalf(b) + Borrow(a, b) * Half]

(* the difference does not fit an int *)
IntOverflows(a, b) ==
    \/ ExactDifference(a, b).hi < HiHalf(INT32_MIN)
    \/ ExactDifference(a, b).hi > HiHalf(INT32_MAX)

(* a - b on int operands.  When the difference does not fit an int the     *)
(* behaviour is undefined; the value kept is the two's complement one, the *)
(* difference modulo 2^32, and the item it is written as is marked as the  *)
(* outcome of an overflow (see DeltaItem).                                 *)
WrapHiHalf(h) == ((h - HiHalf(INT32_MIN)) % Half) + HiHalf(INT32_MIN)

IntSubtract(a, b) ==
    (WrapHiHalf(ExactDifference(a, b).hi) * Half) + ExactDifference(a, b).lo

BoolValue(b) == [n |-> IF b THEN 1 ELSE 0, ch |-> ""]

StrValue(s) == [n |-> s.len, ch |-> IF s.len = 0 THEN "" ELSE s.ch]

----------------------------------------------------------------------------
(* CBOR items and their encoded size (tinycbor) *)

Wrapped == "+2^32"

(* mark of an int item whose value comes out of a signed overflow: the     *)
(* value is whatever the build computes, n being the two's complement one  *)
Overflowed == "signed overflow"

Item(kind, num, c) == [k |-> kind, n |-> num, ch |-> c]

(* bytes of a CBOR head carrying the unsigned argument u, for u below 2^31 *)
HeadSize(u) ==
    IF u < 24 THEN 1
    ELSE IF u < 256 THEN 2
    ELSE IF u < 65536 THEN 3
    ELSE 5

(* A uint item marked Wrapped carries n + 2^32: for n < 0 a value of       *)
(* 2^31 .. 2^32 - 1, whose head takes 5 bytes, for n >= 0 a value of 2^32  *)
(* or more, whose head takes 9 bytes.                                      *)
ItemSize(it) ==
    CASE it.k = "map" -> HeadSize(it.n)
      [] it.k = "array" -> HeadSize(it.n)
      [] it.k = "text" -> HeadSize(it.n) + it.n
      [] it.k = "uint" -> IF it.ch = Wrapped
                          THEN IF it.n < 0 THEN 5 ELSE 9
                          ELSE HeadSize(it.n)
      [] it.k = "int" -> IF it.n >= 0 THEN HeadSize(it.n) ELSE HeadSize(-1 - it.n)
      [] it.k = "double" -> 9
      [] it.k = "bool" -> 1

RECURSIVE SizeOf(_)
SizeOf(items) ==
    IF items = <<>> THEN 0 ELSE ItemSize(Head(items)) + SizeOf(Tail(items))

(* cbor_encoder_init: an encoder over an empty buffer *)
EncoderInit == [items |-> <<>>, used |-> 0, oom |-> FALSE]

(* One tinycbor append: once an append did not fit, the encoder has lost   *)
(* its end pointer and every later append reports CborErrorOutOfMemory.    *)
CborAppend(enc, it) ==
    IF enc.oom \/ enc.used + ItemSize(it) > MAX_CBOR_BUFFER_NUMBYTES
    THEN [enc EXCEPT !.oom = TRUE]
    ELSE [items |-> Append(enc.items, it),
          used |-> enc.used + ItemSize(it),
          oom |-> FALSE]

(* RETURN_IF_CBOR_ERROR: the le_result_t an append maps to *)
CborResult(enc) == IF enc.oom THEN LE_NO_MEMORY ELSE LE_OK

----------------------------------------------------------------------------
(* The record (RecordData_t), its timestamp list and its resource list *)

(* timeSeries_Create: an empty record *)
NewRecord ==
    [timestampList |-> <<>>,
     resourceList |-> <<>>,
     timestampFactor |-> 1,
     isEncoded |-> FALSE,
     bufferPtr |-> <<>>]

(* a count that is one too many *)
GetTimestampCount_PlusOne(rec) == Len(rec.timestampList) + 1

GetTimestampCount(rec) == Len(rec.timestampList)

GetResourceCount(rec) == Len(rec.resourceList)

(* le_hashmap_ContainsKey(resource->data, timestamp) *)
ContainsKey(res, ts) == ts \in DOMAIN res.data

(* le_hashmap_Put: insert, or replace the value of an existing key *)
HashmapPut(data, ts, v) == [t \in DOMAIN data \cup {ts} |-> IF t = ts THEN v ELSE data[t]]

(* le_hashmap_Remove *)
HashmapRemove(data, ts) == [t \in DOMAIN data \ {ts} |-> data[t]]

(* le_dls_Remove / le_dls_AddBefore on a list held as a sequence *)
RemoveAt(list, i) == SubSeq(list, 1, i - 1) \o SubSeq(list, i + 1, Len(list))

InsertBefore(list, i, x) == SubSeq(list, 1, i - 1) \o <<x>> \o SubSeq(list, i, Len(list))

(* index of the first TRUE of a sequence of flags, 0 if none *)
FirstIndex(flags) ==
    IF \E i \in 1..Len(flags) : flags[i]
    THEN CHOOSE i \in 1..Len(flags) : flags[i] /\ \A j \in 1..(i - 1) : ~flags[j]
    ELSE 0

(* a call that does not return *)
NO_RETURN == "NO_RETURN"

(* The search loop of DeleteTimestamp: index of the first link of the      *)
(* timestamp list with this timestamp, 0 when the list is empty (the loop  *)
(* is not entered).  The loop steps with                                   *)
(* le_dls_PeekNext(&recRef->resourceList, linkPtr), which gives NULL only  *)
(* at the link before the head of the resource list: on a timestamp list   *)
(* that is not empty the walk goes round and round the circular list, so   *)
(* the search for a timestamp that is not in it does not end.              *)
TimestampIndex(list, timestamp) ==
    IF list = <<>> THEN 0
    ELSE IF \E k \in 1..Len(list) : list[k] = timestamp
    THEN FirstIndex([k \in 1..Len(list) |-> list[k] = timestamp])
    ELSE NO_RETURN

(* index of the first link of the resource list with this name (strcmp) *)
ResourceIndex(list, path) ==
    FirstIndex([k \in 1..Len(list) |->
                   /\ list[k].name.len = path.len
                   /\ (path.len = 0 \/ list[k].name.ch = path.ch)])

GetTimestamp(rec, timestamp) ==
    IF \E i \in 1..Len(rec.timestampList) : rec.timestampList[i] = timestamp
    THEN LE_OK
    ELSE LE_NOT_FOUND

GetResourceDataTimestampCount(rec, timestamp) ==
    Cardinality({i \in 1..Len(rec.resourceList) : ContainsKey(rec.resourceList[i], timestamp)})

(* a scan that puts the new link before the last link of the list *)
AddTimestampScan_BeforeTail(list, timestamp) == InsertBefore(list, Len(list), timestamp)

(* The scan of AddTimestamp starts at the head and compares the new        *)
(* timestamp with the link after the current one only: the new link goes   *)
(* before the first link, from the second on, that is greater, else last.  *)
AddTimestampScan(list, timestamp) ==
    LET later == {k \in 2..Len(list) : Less64(timestamp, list[k])}
    IN IF later = {}
       THEN Append(list, timestamp)
       ELSE InsertBefore(list, CHOOSE k \in later : \A m \in later : k <= m, timestamp)

(* an insertion that does not look the timestamp up first *)
AddTimestamp_NoLookup(rec, timestamp) ==
    IF rec.timestampList = <<>>
    THEN [rec EXCEPT !.timestampList = <<timestamp>>]
    ELSE [rec EXCEPT !.timestampList = AddTimestampScan(rec.timestampList, timestamp)]

AddTimestamp(rec, timestamp) ==
    IF GetTimestamp(rec, timestamp) = LE_NOT_FOUND
    THEN IF rec.timestampList = <<>>
         THEN [rec EXCEPT !.timestampList = <<timestamp>>]
         ELSE [rec EXCEPT !.timestampList = AddTimestampScan(rec.timestampList, timestamp)]
    ELSE rec

ClearTimestamp(rec) == [rec EXCEPT !.timestampList = <<>>]

ClearResource(rec) == [rec EXCEPT !.resourceList = <<>>]

(* The link found is released and removed.  On an empty list the call     *)
(* returns at once; for a timestamp that is not in a list that is not      *)
(* empty the search does not end and the call does not return.             *)
DeleteTimestamp(rec, timestamp) ==
    IF rec.timestampList = <<>> THEN rec
    ELSE IF \A k \in 1..Len(rec.timestampList) : rec.timestampList[k] # timestamp
    THEN NO_RETURN
    ELSE [rec EXCEPT !.timestampList =
              RemoveAt(@, TimestampIndex(rec.timestampList, timestamp))]

(* a removal of the value that keeps a resource left without any value *)
DeleteResourceData_KeepResource(rec, path, timestamp) ==
    IF ResourceIndex(rec.resourceList, path) = 0 THEN rec
    ELSE [rec EXCEPT !.resourceList[ResourceIndex(rec.resourceList, path)].data =
                        HashmapRemove(@, timestamp)]

(* Removes the value of the resource at the timestamp; a resource left     *)
(* without any value is released and unlinked from the resource list.      *)
DeleteResourceData(rec, path, timestamp) ==
    LET i == ResourceIndex(rec.resourceList, path)
    IN IF i = 0 THEN rec
       ELSE IF ~ContainsKey(rec.resourceList[i], timestamp) THEN rec
       ELSE LET left == HashmapRemove(rec.resourceList[i].data, timestamp)
            IN IF DOMAIN left = {}
               THEN [rec EXCEPT !.resourceList = RemoveAt(rec.resourceList, i)]
               ELSE [rec EXCEPT !.resourceList[i].data = left]

(* the timestamp goes when no resource holds a value for it any more *)
DeleteUnusedTimestamp(rec, timestamp) ==
    IF GetResourceDataTimestampCount(rec, timestamp) = 0
    THEN DeleteTimestamp(rec, timestamp)
    ELSE rec

DeleteData(rec, path, timestamp) ==
    IF GetTimestamp(rec, timestamp) = LE_OK
    THEN DeleteUnusedTimestamp(DeleteResourceData(rec, path, timestamp), timestamp)
    ELSE rec

(* a reset that leaves the timestamp list alone *)
ResetRecord_KeepTimestamps(rec) ==
    [ClearResource(rec) EXCEPT !.timestampFactor = 1, !.isEncoded = FALSE]

ResetRecord(rec) ==
    [ClearTimestamp(ClearResource(rec)) EXCEPT !.timestampFactor = 1, !.isEncoded = FALSE]

GetEncodedDataSize(rec) == IF ~rec.isEncoded THEN 0 ELSE SizeOf(rec.bufferPtr)

----------------------------------------------------------------------------
(* The encoder.  An encoding in progress is [enc, result, err]: the        *)
(* tinycbor encoder, the le_result_t so far (a step of Encode is skipped   *)
(* once it is not LE_OK: the function has returned) and the CborError of   *)
(* the creation of the sample array, which Encode checks last.             *)

Ret(e, r, oomErr) == [enc |-> e, result |-> r, err |-> oomErr]

(* err = append; RETURN_IF_CBOR_ERROR(err) *)
PutChecked(st, it) ==
    IF st.result # LE_OK THEN st
    ELSE Ret(CborAppend(st.enc, it), CborResult(CborAppend(st.enc, it)), st.err)

(* header array: the name of every resource, in list order; returns at the *)
(* first append that fails                                                 *)
RECURSIVE NameLoop(_, _, _)
NameLoop(rec, st, j) ==
    IF j > Len(rec.resourceList) \/ st.result # LE_OK THEN st
    ELSE NameLoop(rec,
                  PutChecked(st, Item("text", rec.resourceList[j].name.len,
                                              rec.resourceList[j].name.ch)),
                  j + 1)

EncodeResourceNameToCborArray(rec, st) ==
    IF st.result # LE_OK THEN st ELSE NameLoop(rec, st, 1)

(* factor array: the timestamp factor, then the factor of every resource *)
RECURSIVE FactorLoop(_, _, _)
FactorLoop(rec, st, j) ==
    IF j > Len(rec.resourceList) \/ st.result # LE_OK THEN st
    ELSE FactorLoop(rec, PutChecked(st, Item("double", rec.resourceList[j].factor, "")), j + 1)

EncodeFactorToCborArray(rec, st) ==
    IF st.result # LE_OK THEN st
    ELSE FactorLoop(rec, PutChecked(st, Item("double", rec.timestampFactor, "")), 1)

(* a default that is the int 0 whatever the type *)
DefaultItem_Int(res) == Item("int", 0, "")

(* the item written for a resource that has no value at a timestamp *)
DefaultItem(res) ==
    CASE res.type = DATA_TYPE_INT -> Item("int", 0, "")
      [] res.type = DATA_TYPE_FLOAT -> Item("double", 0, "")
      [] res.type = DATA_TYPE_BOOL -> Item("bool", 0, "")
      [] res.type = DATA_TYPE_STRING -> Item("text", 0, "")

(* the result of a value append replaces the result so far *)
EncodeResourceDefaultValue(st, res) ==
    Ret(CborAppend(st.enc, DefaultItem(res)),
        CborResult(CborAppend(st.enc, DefaultItem(res))),
        st.err)

(* a previous value that is always taken as 0 *)
PrevValue_Zero(res, prevTs) == 0

(* the value of the resource at the previous timestamp row, 0 when the     *)
(* resource has no value there                                             *)
PrevValue(res, prevTs) == IF ContainsKey(res, prevTs) THEN res.data[prevTs].n ELSE 0

(* the item written for a resource that has a value at the timestamp;      *)
(* hasPrev is FALSE on the first row (prevTimestampPtr == NULL)            *)
DeltaItem(res, curTs, hasPrev, prevTs) ==
    CASE res.type = DATA_TYPE_INT ->
           IF ~hasPrev
           THEN Item("int", res.data[curTs].n * res.factor, "")
           ELSE Item("int",
                     IntSubtract(res.data[curTs].n, PrevValue(res, prevTs)) * res.factor,
                     IF IntOverflows(res.data[curTs].n, PrevValue(res, prevTs))
                     THEN Overflowed ELSE "")
      [] res.type = DATA_TYPE_FLOAT ->
           IF ~hasPrev
           THEN Item("double", res.data[curTs].n, "")
           ELSE Item("double", (res.data[curTs].n - PrevValue(res, prevTs)) * res.factor, "")
      [] res.type = DATA_TYPE_BOOL -> Item("bool", res.data[curTs].n, "")
      [] res.type = DATA_TYPE_STRING -> Item("text", res.data[curTs].n, res.data[curTs].ch)

(* a value append whose error is dropped *)
EncodeResourceDeltaValue_IgnoreError(st, res, curTs, hasPrev, prevTs) ==
    Ret(CborAppend(st.enc, DeltaItem(res, curTs, hasPrev, prevTs)), LE_OK, st.err)

EncodeResourceDeltaValue(st, res, curTs, hasPrev, prevTs) ==
    Ret(CborAppend(st.enc, DeltaItem(res, curTs, hasPrev, prevTs)),
        CborResult(CborAppend(st.enc, DeltaItem(res, curTs, hasPrev, prevTs))),
        st.err)

(* uint deltaTimestamp: the difference of two uint64_t kept in 32 bits,    *)
(* which is the difference of the low halves modulo 2^32.  A negative      *)
(* difference d of the low halves stands for 2^32 + d, and is written as d *)
(* in an item marked Wrapped.                                              *)
DeltaTimestamp(curTs, prevTs) == curTs.lo - prevTs.lo

UintItem(d, factor) ==
    IF d < 0 THEN Item("uint", d * factor, Wrapped) ELSE Item("uint", d * factor, "")

(* the timestamp of the first row, written with its 64 bits *)
Uint64Item(ts, factor) ==
    IF ts.hi = 0 THEN Item("uint", ts.lo * factor, "") ELSE Item("uint", ts.lo * factor, Wrapped)

TimestampItem(rec, curTs, hasPrev, prevTs) ==
    IF ~hasPrev
    THEN Uint64Item(curTs, rec.timestampFactor)
    ELSE UintItem(DeltaTimestamp(curTs, prevTs), rec.timestampFactor)

(* prevTimestampPtr == NULL: no timestamp row before the first *)
NoTimestamp == U64(0, 0)

(* the resources of one timestamp row: the result of each resource         *)
(* overwrites the result of the one before                                 *)
RECURSIVE ResourceLoop(_, _, _, _, _, _)
ResourceLoop(rec, st, j, curTs, hasPrev, prevTs) ==
    IF j > Len(rec.resourceList) THEN st
    ELSE ResourceLoop(rec,
                      IF ~ContainsKey(rec.resourceList[j], curTs)
                      THEN EncodeResourceDefaultValue(st, rec.resourceList[j])
                      ELSE EncodeResourceDeltaValue(st, rec.resourceList[j],
                                                    curTs, hasPrev, prevTs),
                      j + 1, curTs, hasPrev, prevTs)

(* the timestamp of row i, then its resources; a failed timestamp append   *)
(* returns LE_NO_MEMORY at once                                            *)
TimestampRow(rec, st, i, afterTs) ==
    IF afterTs.oom THEN Ret(afterTs, LE_NO_MEMORY, st.err)
    ELSE ResourceLoop(rec, Ret(afterTs, st.result, st.err), 1,
                      rec.timestampList[i], i > 1,
                      IF i > 1 THEN rec.timestampList[i - 1] ELSE NoTimestamp)

(* the timestamp rows, in list order; a failed value append is only seen   *)
(* in the result that is returned last; returned tells that the function   *)
(* has returned early                                                      *)
RECURSIVE TimestampLoop(_, _, _, _)
TimestampLoop(rec, st, i, returned) ==
    IF i > Len(rec.timestampList) \/ returned THEN st
    ELSE TimestampLoop(rec,
                       TimestampRow(rec, st, i,
                                    CborAppend(st.enc,
                                               TimestampItem(rec, rec.timestampList[i], i > 1,
                                                             IF i > 1
                                                             THEN rec.timestampList[i - 1]
                                                             ELSE NoTimestamp))),
                       i + 1,
                       CborAppend(st.enc,
                                  TimestampItem(rec, rec.timestampList[i], i > 1,
                                                IF i > 1 THEN rec.timestampList[i - 1]
                                                ELSE NoTimestamp)).oom)

(* the creation of the sample array: its error is kept in err and checked  *)
(* after the samples                                                       *)
CreateSampleArray(rec, st) ==
    IF st.result # LE_OK THEN st
    ELSE Ret(CborAppend(st.enc, Item("array",
                                     (GetResourceCount(rec) + 1) * GetTimestampCount(rec), "")),
             LE_OK,
             CborAppend(st.enc, Item("array",
                                     (GetResourceCount(rec) + 1) * GetTimestampCount(rec),
                                     "")).oom)

EncodeResourceDataToCborArray(rec, st) ==
    IF st.result # LE_OK THEN st ELSE TimestampLoop(rec, st, 1, FALSE)

(* RETURN_IF_CBOR_ERROR(err) after the containers are closed *)
CheckSampleArray(st) ==
    IF st.result # LE_OK THEN st
    ELSE IF st.err THEN Ret(st.enc, LE_NO_MEMORY, st.err)
    ELSE st

(* the map "h", "f", "s" written from an empty buffer *)
EncodeFrom(rec) ==
    CheckSampleArray(
     EncodeResourceDataToCborArray(rec,
      CreateSampleArray(rec,
       PutChecked(
        EncodeFactorToCborArray(rec,
         PutChecked(
          PutChecked(
           EncodeResourceNameToCborArray(rec,
            PutChecked(
             PutChecked(
              PutChecked(Ret(EncoderInit, LE_OK, FALSE),
                         Item("map", NUM_TIME_SERIES_MAPS, "")),
              Item("text", 1, "h")),
             Item("array", GetResourceCount(rec), ""))),
           Item("text", 1, "f")),
          Item("array", GetResourceCount(rec) + 1, ""))),
        Item("text", 1, "s")))))

(* what Encode leaves in the record for an encoding that has ended *)
Encoded(rec, st) ==
    [rec |-> [rec EXCEPT !.bufferPtr = st.enc.items, !.isEncoded = (st.result = LE_OK)],
     result |-> st.result]

(* Encode: nothing to do when the record is already encoded; otherwise the *)
(* buffer is rewritten and isEncoded is set only when every step passed.   *)
(* Returns the record and the le_result_t.                                 *)
Encode(rec) ==
    IF rec.isEncoded
    THEN [rec |-> rec, result |-> LE_OK]
    ELSE Encoded(rec, EncodeFrom(rec))

----------------------------------------------------------------------------
(* Resources and samples *)

Out(r, res) == [rec |-> r, result |-> res]

(* a lookup that takes a resource of the path whatever its type *)
GetResourceData_AnyType(rec, path, type) ==
    IF \E i \in 1..Len(rec.resourceList) : rec.resourceList[i].name = path
    THEN LE_OK
    ELSE LE_NOT_FOUND

(* LE_FAULT when the path exists with another type, LE_OK when it exists   *)
(* with this type, LE_NOT_FOUND otherwise                                  *)
GetResourceData(rec, path, type) ==
    LET i == ResourceIndex(rec.resourceList, path)
    IN IF i = 0 THEN LE_NOT_FOUND
       ELSE IF rec.resourceList[i].type # type THEN LE_FAULT
       ELSE LE_OK

(* a factor of 1 whatever the type *)
NewFactor_One(type) == 1

(* factor of a new resource: 0 for string and bool, 1 for int and float *)
NewFactor(type) ==
    IF type = DATA_TYPE_STRING \/ type = DATA_TYPE_BOOL THEN 0 ELSE 1

(* A new resource is queued at the end of the resource list, unless its    *)
(* name does not fit into name[LE_AVDATA_PATH_NAME_LEN].                   *)
CreateResourceData(rec, path, type) ==
    IF Utf8CopyResult(path, LE_AVDATA_PATH_NAME_LEN) = LE_OVERFLOW
    THEN Out(rec, LE_OVERFLOW)
    ELSE Out([rec EXCEPT !.resourceList =
                  Append(@, [name |-> Utf8Copy(path, LE_AVDATA_PATH_NAME_LEN),
                             type |-> type,
                             data |-> [t \in {} |-> NumValue(0)],
                             factor |-> NewFactor(type)])],
             LE_OK)

(* le_hashmap_Put(rdataPtr->data, timestampPtr->timestamp, dataPtr) *)
PutData(rec, name, timestamp, dataValue) ==
    LET i == ResourceIndex(rec.resourceList, name)
    IN [rec EXCEPT !.resourceList[i].data = HashmapPut(@, timestamp, dataValue)]

(* a removal that encodes the record again once the value is deleted *)
RemoveAddedData_Reencode(rec, name, timestamp) ==
    Encode([DeleteData(rec, name, timestamp) EXCEPT !.isEncoded = FALSE]).rec

(* what the add functions do when Encode reports LE_NO_MEMORY *)
RemoveAddedData(rec, name, timestamp) ==
    [DeleteData(rec, name, timestamp) EXCEPT !.isEncoded = FALSE]

(* The body shared by AddIntResourceData, AddFloatResourceData,            *)
(* AddBoolResourceData and AddStringResourceData: store the value, encode  *)
(* again, and remove the value when the buffer cannot hold it.             *)
RemoveIfNoMemory(enc, name, timestamp) ==
    IF enc.result = LE_NO_MEMORY
    THEN Out(RemoveAddedData(enc.rec, name, timestamp), enc.result)
    ELSE enc

AddResourceData(rec, name, dataValue, timestamp) ==
    IF GetTimestamp(rec, timestamp) # LE_OK
    THEN Out(rec, LE_FAULT)
    ELSE RemoveIfNoMemory(
             Encode([PutData(rec, name, timestamp, dataValue) EXCEPT !.isEncoded = FALSE]),
             name, timestamp)

AddIntResourceData(rec, name, value, timestamp) ==
    AddResourceData(rec, name, NumValue(value), timestamp)

AddFloatResourceData(rec, name, value, timestamp) ==
    AddResourceData(rec, name, NumValue(value), timestamp)

AddBoolResourceData(rec, name, value, timestamp) ==
    AddResourceData(rec, name, BoolValue(value), timestamp)

AddStringResourceData(rec, name, value, timestamp) ==
    AddResourceData(rec, name, StrValue(Utf8Copy(value, LE_AVDATA_STRING_VALUE_LEN)), timestamp)

(* The part shared by timeSeries_AddInt, timeSeries_AddFloat,              *)
(* timeSeries_AddBool and timeSeries_AddString before the value is added:  *)
(* look the resource up, add the timestamp, create the resource when it    *)
(* is not found.  LE_OK tells that the resource is there for the add.      *)
CreateAndGet(created, path, type) ==
    IF created.result # LE_OK THEN created
    ELSE Out(created.rec, GetResourceData(created.rec, path, type))

FindOrCreateIn(withTs, found, path, type) ==
    IF found = LE_NOT_FOUND
    THEN CreateAndGet(CreateResourceData(withTs, path, type), path, type)
    ELSE Out(withTs, LE_OK)

FindOrCreateResource(rec, path, type, timestamp) ==
    IF GetResourceData(rec, path, type) = LE_FAULT
    THEN Out(rec, LE_FAULT)
    ELSE FindOrCreateIn(AddTimestamp(rec, timestamp), GetResourceData(rec, path, type),
                        path, type)

AddIntTo(found, path, value, timestamp) ==
    IF found.result # LE_OK THEN found
    ELSE AddIntResourceData(found.rec, path, value, timestamp)

timeSeries_AddInt(rec, path, value, timestamp) ==
    AddIntTo(FindOrCreateResource(rec, path, DATA_TYPE_INT, timestamp), path, value, timestamp)

AddFloatTo(found, path, value, timestamp) ==
    IF found.result # LE_OK THEN found
    ELSE AddFloatResourceData(found.rec, path, value, timestamp)

timeSeries_AddFloat(rec, path, value, timestamp) ==
    AddFloatTo(FindOrCreateResource(rec, path, DATA_TYPE_FLOAT, timestamp),
               path, value, timestamp)

AddBoolTo(found, path, value, timestamp) ==
    IF found.result # LE_OK THEN found
    ELSE AddBoolResourceData(found.rec, path, value, timestamp)

timeSeries_AddBool(rec, path, value, timestamp) ==
    AddBoolTo(FindOrCreateResource(rec, path, DATA_TYPE_BOOL, timestamp),
              path, value, timestamp)

AddStringTo(found, path, value, timestamp) ==
    IF found.result # LE_OK THEN found
    ELSE AddStringResourceData(found.rec, path, value, timestamp)

timeSeries_AddString(rec, path, value, timestamp) ==
    AddStringTo(FindOrCreateResource(rec, path, DATA_TYPE_STRING, timestamp),
                path, value, timestamp)

----------------------------------------------------------------------------
(* Push *)

LWM2MCORE_PUSH_INITIATED == "LWM2MCORE_PUSH_INITIATED"
LWM2MCORE_PUSH_BUSY == "LWM2MCORE_PUSH_BUSY"
LWM2MCORE_PUSH_FAILED == "LWM2MCORE_PUSH_FAILED"

NULL == "NULL"

PushResults == {LWM2MCORE_PUSH_INITIATED, LWM2MCORE_PUSH_BUSY, LWM2MCORE_PUSH_FAILED}

(* avcClient_Push: the le_result_t for what lwm2mcore_Push answered *)
avcClient_Push(rc) ==
    CASE rc = LWM2MCORE_PUSH_INITIATED -> LE_OK
      [] rc = LWM2MCORE_PUSH_BUSY -> LE_BUSY
      [] OTHER -> LE_FAULT

(* deflate of the encoded bytes: a lossless function of its input, kept    *)
(* as the input under a tag                                                *)
Deflate(items) == [deflate |-> items]

(* the first GetEncodedDataSize bytes of the buffer *)
EncodedBytes(rec) == IF GetEncodedDataSize(rec) = 0 THEN <<>> ELSE rec.bufferPtr

(* a push that resets the record whatever the transport answered *)
ResetAfterPush_Always(rec, res) == ResetRecord(rec)

(* the record is reset when the push returned LE_OK *)
ResetAfterPush(rec, res) == IF res = LE_OK THEN ResetRecord(rec) ELSE rec

(* a push that hands the buffer to the transport whatever Encode returned *)
PushEncoded_IgnoreEncodeResult(enc, handlerPtr, rc) ==
    [rec |-> ResetAfterPush(enc.rec, avcClient_Push(rc)),
     result |-> avcClient_Push(rc),
     payload |-> <<Deflate(enc.rec.bufferPtr)>>,
     callback |-> NULL]

(* timeSeries_PushRecord, rc being the answer of lwm2mcore_Push.  payload  *)
(* is <<>> when the transport is not called, else the one payload handed   *)
(* to it; callback is the callback handed to avcClient_Push with it, which *)
(* is NULL whatever handlerPtr is.                                         *)
PushEncoded(enc, handlerPtr, rc) ==
    IF enc.result = LE_OK
    THEN [rec |-> ResetAfterPush(enc.rec, avcClient_Push(rc)),
          result |-> avcClient_Push(rc),
          payload |-> <<Deflate(EncodedBytes(enc.rec))>>,
          callback |-> NULL]
    ELSE [rec |-> enc.rec, result |-> enc.result, payload |-> <<>>, callback |-> NULL]

timeSeries_PushRecord(rec, handlerPtr, rc) == PushEncoded(Encode(rec), handlerPtr, rc)

----------------------------------------------------------------------------
(* The pools of the value objects.  pool counts the blocks of               *)
(* DataValuePoolRef (values) and of StringValuePoolRef (strings) that are  *)
(* allocated and not released; counted tells whether the specification     *)
(* counts them.                                                            *)

PoolsNotCounted == [values |-> 0, strings |-> 0, counted |-> FALSE]

PoolsEmpty == [values |-> 0, strings |-> 0, counted |-> TRUE]

(* le_mem_ForceAlloc and le_mem_Release of so many value objects and       *)
(* string payloads                                                         *)
ForceAlloc(p, nValues, nStrings) ==
    IF p.counted
    THEN [p EXCEPT !.values = @ + nValues, !.strings = @ + nStrings]
    ELSE p

Release(p, nValues, nStrings) ==
    IF p.counted
    THEN [p EXCEPT !.values = @ - nValues, !.strings = @ - nStrings]
    ELSE p

StringsOf(type, n) == IF type = DATA_TYPE_STRING THEN n ELSE 0

(* The add functions allocate a Data_t, and a string payload for a string, *)
(* and put it into the hashmap of the resource: le_hashmap_Put returns the *)
(* value it replaces, if any, and the add functions drop what it returns.  *)
PoolAfterPut(p, type) == ForceAlloc(p, 1, StringsOf(type, 1))

(* DeleteResourceData releases the value the resource holds at the         *)
(* timestamp, with its payload when the resource is a string resource      *)
PoolAfterDeleteResourceData(p, rec, path, timestamp) ==
    LET i == ResourceIndex(rec.resourceList, path)
    IN IF i = 0 THEN p
       ELSE IF ~ContainsKey(rec.resourceList[i], timestamp) THEN p
       ELSE Release(p, 1, StringsOf(rec.resourceList[i].type, 1))

PoolAfterDeleteData(p, rec, path, timestamp) ==
    IF GetTimestamp(rec, timestamp) = LE_OK
    THEN PoolAfterDeleteResourceData(p, rec, path, timestamp)
    ELSE p

(* ClearResource releases every value of the hashmap of every resource     *)
RECURSIVE PoolAfterClearResource(_, _, _)
PoolAfterClearResource(p, rec, j) ==
    IF j > Len(rec.resourceList) THEN p
    ELSE PoolAfterClearResource(
             Release(p, Cardinality(DOMAIN rec.resourceList[j].data),
                     StringsOf(rec.resourceList[j].type,
                               Cardinality(DOMAIN rec.resourceList[j].data))),
             rec, j + 1)

PoolAfterResetRecord(p, rec) == PoolAfterClearResource(p, rec, 1)

(* the pools after AddIntResourceData .. AddStringResourceData on the      *)
(* record found, which returned addResult                                  *)
PoolAfterAddResourceData(p, rec, path, type, timestamp, addResult) ==
    IF GetTimestamp(rec, timestamp) # LE_OK THEN p
    ELSE IF addResult = LE_NO_MEMORY
    THEN PoolAfterDeleteData(PoolAfterPut(p, type),
                             PutData(rec, path, timestamp, NumValue(0)), path, timestamp)
    ELSE PoolAfterPut(p, type)

(* the pools after timeSeries_AddInt .. timeSeries_AddString called with   *)
(* sample s on rec, which returned out                                     *)
PoolAfterAdd(p, rec, s, out) ==
    IF FindOrCreateResource(rec, s.path, s.type, s.ts).result # LE_OK THEN p
    ELSE PoolAfterAddResourceData(p, FindOrCreateResource(rec, s.path, s.type, s.ts).rec,
                                  s.path, s.type, s.ts, out.result)

(* the pools after timeSeries_PushRecord called on rec, which returned out *)
PoolAfterPush(p, rec, out) ==
    IF out.result = LE_OK THEN PoolAfterResetRecord(p, rec) ELSE p

(* nothing is scanning the timestamp list *)
NoLoop == [fn |-> "none"]

----------------------------------------------------------------------------
(* The calls a client makes.  call and result record the last call and     *)
(* what it returned; sent is the payload the last call handed to the       *)
(* transport (<<>> when it handed none); pushInFlight tells that a push    *)
(* was initiated and has not completed, pushCallback is the callback the   *)
(* transport was given for it; handlerCalls counts the invocations of the  *)
(* completion handler of the last push call; writtenType keeps, per path,  *)
(* the type of the first accepted sample since the record was last reset.  *)

Sample(p, t, v, ts) == [path |-> p, type |-> t, value |-> v, ts |-> ts]

NoCall ==
    [fn |-> "none", path |-> Str("", 0), type |-> "none", value |-> NumValue(0),
     ts |-> NoTimestamp,
     retry |-> FALSE]

(* the client sessions of the model *)
Sessions == {"client1", "client2"}

(* no call with a reference made yet.  entered is the time series function *)
(* the call entered and arg the record it passed to it; released is the    *)
(* set of safe references the call deleted.                                *)
NoRefCall ==
    [fn |-> "none", session |-> "none", ref |-> 0, entered |-> "none", arg |-> 0,
     released |-> {}]

(* no record reference handed out, an empty record, no call made *)
NoCallMade ==
    /\ RecordRefMap = [r \in {} |-> 0]
    /\ records = [p \in {} |-> 0]
    /\ sessions = Sessions
    /\ nextRef = 1
    /\ refCall = NoRefCall
    /\ daemon = "running"
    /\ recRef = NewRecord
    /\ call = NoCall
    /\ result = "none"
    /\ sent = <<>>
    /\ pushInFlight = FALSE
    /\ pushCallback = NULL
    /\ handlerCalls = 0
    /\ writtenType = [p \in {} |-> "none"]

Init ==
    /\ NoCallMade
    /\ pool = PoolsNotCounted
    /\ loop = NoLoop

AddReturn(fn, s, out) ==
    /\ recRef' = out.rec
    /\ result' = out.result
    /\ call' = [fn |-> fn, path |-> s.path, type |-> s.type, value |-> s.value, ts |-> s.ts,
                retry |-> FALSE]
    /\ writtenType' = IF out.result = LE_OK /\ s.path \notin DOMAIN writtenType
                      THEN [p \in DOMAIN writtenType \cup {s.path} |->
                              IF p = s.path THEN s.type ELSE writtenType[p]]
                      ELSE writtenType
    /\ sent' = <<>>
    /\ pool' = PoolAfterAdd(pool, recRef, s, out)
    /\ UNCHANGED <<pushInFlight, pushCallback, handlerCalls, refVars, loop>>

AddInt(s) ==
    /\ s.type = DATA_TYPE_INT
    /\ AddReturn("timeSeries_AddInt", s, timeSeries_AddInt(recRef, s.path, s.value.n, s.ts))

AddFloat(s) ==
    /\ s.type = DATA_TYPE_FLOAT
    /\ AddReturn("timeSeries_AddFloat", s, timeSeries_AddFloat(recRef, s.path, s.value.n, s.ts))

AddBool(s) ==
    /\ s.type = DATA_TYPE_BOOL
    /\ AddReturn("timeSeries_AddBool", s,
                 timeSeries_AddBool(recRef, s.path, s.value.n = 1, s.ts))

AddString(s) ==
    /\ s.type = DATA_TYPE_STRING
    /\ AddReturn("timeSeries_AddString", s,
                 timeSeries_AddString(recRef, s.path, Str(s.value.ch, s.value.n), s.ts))

(* le_avdata_PushRecord -> timeSeries_PushRecord; the handler is dropped,  *)
(* so no step invokes it                                                   *)
(* the last call was a push whose send the transport refused; call.retry   *)
(* records that a push call follows such a push                            *)
SendFailed ==
    /\ call.fn = "timeSeries_PushRecord"
    /\ sent # <<>>
    /\ result \in {LE_BUSY, LE_FAULT}

Initiated(out) == out.payload # <<>> /\ out.result = LE_OK

PushReturn(out) ==
    /\ recRef' = out.rec
    /\ result' = out.result
    /\ sent' = out.payload
    /\ pushInFlight' = IF Initiated(out) THEN TRUE ELSE pushInFlight
    /\ pushCallback' = IF Initiated(out) THEN out.callback ELSE pushCallback
    /\ writtenType' = IF Initiated(out) THEN [p \in {} |-> "none"] ELSE writtenType
    /\ call' = [NoCall EXCEPT !.fn = "timeSeries_PushRecord", !.retry = SendFailed]
    /\ handlerCalls' = 0
    /\ pool' = PoolAfterPush(pool, recRef, out)
    /\ UNCHANGED <<refVars, loop>>

PushRecord(rc) ==
    /\ rc \in PushResults
    /\ PushReturn(timeSeries_PushRecord(recRef, "handlerPtr", rc))

(* the transport finishes the push it had initiated and invokes the        *)
(* callback it was given for it, if any                                    *)
PushCompleted ==
    /\ pushInFlight
    /\ pushInFlight' = FALSE
    /\ handlerCalls' = IF pushCallback = NULL THEN handlerCalls ELSE handlerCalls + 1
    /\ UNCHANGED <<recRef, call, result, sent, pushCallback, writtenType, refVars,
                   pool, loop>>

(* Inputs of Spec: two short paths written at timestamps in any order,     *)
(* with every type, and one path too long to be stored                     *)
PathX == Str("x", 1)

PathY == Str("y", 1)

PathTooLong == Str("p", LE_AVDATA_PATH_NAME_LEN)

Samples ==
    {Sample(PathX, DATA_TYPE_INT, NumValue(5), ts) : ts \in {U64(0, 10), U64(0, 5)}}
    \cup {Sample(PathX, DATA_TYPE_INT, NumValue(8), U64(0, 20)),
          Sample(PathY, DATA_TYPE_INT, NumValue(9), U64(0, 20)),
          Sample(PathX, DATA_TYPE_STRING, StrValue(Str("s", 3)), U64(0, 10)),
          Sample(PathY, DATA_TYPE_BOOL, BoolValue(TRUE), U64(0, 20)),
          Sample(PathY, DATA_TYPE_FLOAT, NumValue(2), U64(0, 10)),
          Sample(PathY, DATA_TYPE_FLOAT, NumValue(7), U64(0, 20)),
          Sample(PathX, DATA_TYPE_STRING,
                 StrValue(Str("s", LE_AVDATA_STRING_VALUE_LEN)), U64(0, 20)),
          Sample(PathTooLong, DATA_TYPE_INT, NumValue(1), U64(0, 30))}

Next ==
    \/ \E s \in Samples : AddInt(s)
    \/ \E s \in Samples : AddFloat(s)
    \/ \E s \in Samples : AddBool(s)
    \/ \E s \in Samples : AddString(s)
    \/ \E rc \in PushResults : PushRecord(rc)
    \/ PushCompleted

Spec == Init /\ [][Next]_vars

(* Inputs of SpecCap: five paths of the longest name that can be stored,   *)
(* each written with the longest string that can be stored, fill the       *)
(* buffer up to 186 bytes; the samples for path x, written after them,     *)
(* then fit or not according to their size.                                *)
LongPath(c) == Str(c, LE_AVDATA_PATH_NAME_LEN - 1)

LongString == Str("s", LE_AVDATA_STRING_VALUE_LEN - 1)

LongPathChars == <<"a", "b", "c", "d", "e">>

CapSamples ==
    {Sample(LongPath(LongPathChars[i]), DATA_TYPE_STRING, StrValue(LongString),
            U64(0, 10)) :
        i \in 1..Len(LongPathChars)}
    \cup {Sample(PathX, DATA_TYPE_STRING, StrValue(Str("s", 170)), U64(0, 10)),
          Sample(PathX, DATA_TYPE_STRING, StrValue(LongString), U64(0, 10)),
          Sample(PathX, DATA_TYPE_STRING, StrValue(LongString), U64(0, 20)),
          Sample(PathX, DATA_TYPE_INT, NumValue(5), U64(0, 10)),
          Sample(PathY, DATA_TYPE_INT, NumValue(9), U64(0, 10)),
          Sample(PathTooLong, DATA_TYPE_INT, NumValue(1), U64(0, 20))}

(* the client of SpecCap writes the long paths in the order of             *)
(* LongPathChars, a long path once the long paths before it are in the     *)
(* record; it writes path x before the first or after the last of them,    *)
(* and path y after the last                                               *)
Names(rec) == {rec.resourceList[i].name : i \in 1..Len(rec.resourceList)}

LongPaths == {LongPath(LongPathChars[j]) : j \in 1..Len(LongPathChars)}

LongPathsBefore(s) ==
    IF s.path \in {PathX, PathY} THEN LongPaths
    ELSE {LongPath(LongPathChars[j]) : j \in {k \in 1..Len(LongPathChars) :
             \E i \in (k + 1)..Len(LongPathChars) : s.path = LongPath(LongPathChars[i])}}

InFillOrder(s) ==
    \/ LongPathsBefore(s) \subseteq Names(recRef)
    \/ s.path = PathX /\ Names(recRef) \cap LongPaths = {}

NextCap ==
    \/ \E s \in CapSamples : InFillOrder(s) /\ AddInt(s)
    \/ \E s \in CapSamples : InFillOrder(s) /\ AddString(s)
    \/ \E rc \in PushResults : PushRecord(rc)
    \/ PushCompleted

SpecCap == Init /\ [][NextCap]_vars

(* Inputs of SpecWide: timestamps that lie 2^32 and more apart, and int    *)
(* values at both ends of the int range                                    *)
WideSamples ==
    {Sample(PathX, DATA_TYPE_INT, NumValue(1), U64(0, 10)),
     Sample(PathX, DATA_TYPE_INT, NumValue(2), U64(1, 5)),
     Sample(PathX, DATA_TYPE_INT, NumValue(3), U64(1, 15)),
     Sample(PathY, DATA_TYPE_INT, NumValue(INT32_MAX), U64(0, 10)),
     Sample(PathY, DATA_TYPE_INT, NumValue(INT32_MIN), U64(0, 20)),
     Sample(PathY, DATA_TYPE_INT, NumValue(INT32_MAX), U64(1, 5))}

NextWide ==
    \/ \E s \in WideSamples : AddInt(s)
    \/ \E rc \in PushResults : PushRecord(rc)
    \/ PushCompleted

SpecWide == Init /\ [][NextWide]_vars

(* Inputs of SpecInOrder: the samples of Spec, written in non-decreasing   *)
(* time order: the client writes a sample when no timestamp of the record  *)
(* is greater than the timestamp of the sample                             *)
InTimeOrder(s) ==
    \A i \in 1..Len(recRef.timestampList) : ~Less64(s.ts, recRef.timestampList[i])

NextInOrder ==
    \/ \E s \in Samples : InTimeOrder(s) /\ AddInt(s)
    \/ \E s \in Samples : InTimeOrder(s) /\ AddFloat(s)
    \/ \E s \in Samples : InTimeOrder(s) /\ AddBool(s)
    \/ \E s \in Samples : InTimeOrder(s) /\ AddString(s)
    \/ \E rc \in PushResults : PushRecord(rc)
    \/ PushCompleted

SpecInOrder == Init /\ [][NextInOrder]_vars

(* Inputs of SpecMem: the blocks of the value pools are counted from the   *)
(* start, both pools being empty; two paths, an int and a string one, are  *)
(* written at two timestamps, the same sample any number of times while    *)
(* the pool of the value objects holds fewer than MaxLive blocks           *)
MaxLive == 4

MemSamples ==
    {Sample(PathX, DATA_TYPE_INT, NumValue(5), U64(0, 10)),
     Sample(PathX, DATA_TYPE_INT, NumValue(8), U64(0, 20)),
     Sample(PathY, DATA_TYPE_STRING, StrValue(Str("s", 3)), U64(0, 10)),
     Sample(PathY, DATA_TYPE_STRING,
            StrValue(Str("s", LE_AVDATA_STRING_VALUE_LEN)), U64(0, 20))}

InitMem ==
    /\ NoCallMade
    /\ pool = PoolsEmpty
    /\ loop = NoLoop

NextMem ==
    \/ \E s \in MemSamples : pool.values < MaxLive /\ AddInt(s)
    \/ \E s \in MemSamples : pool.values < MaxLive /\ AddString(s)
    \/ \E rc \in PushResults : PushRecord(rc)
    \/ PushCompleted

SpecMem == InitMem /\ [][NextMem]_vars

----------------------------------------------------------------------------
(* DeleteTimestamp, one iteration of its loop at a time.  A link of a      *)
(* list is [list, at]: the list it is in and its place from the head on.   *)
(* The lists are circular: the link after the last one is the head, and    *)
(* le_dls_PeekNext tells the end of a list by comparing the link after the *)
(* current one with the head of the list it is given.                      *)

NullLink == [list |-> "NULL", at |-> 0]

Link(listName, i) == [list |-> listName, at |-> i]

(* le_dls_Peek: the head link of a list of len links *)
le_dls_Peek(listName, len) == IF len = 0 THEN NullLink ELSE Link(listName, 1)

(* currentLinkPtr->nextPtr in a list of len links *)
NextPtr(link, len) == Link(link.list, IF link.at = len THEN 1 ELSE link.at + 1)

(* le_dls_PeekNext(listPtr, currentLinkPtr), headLinkPtr being the head of *)
(* listPtr and nextPtr the link after currentLinkPtr                       *)
le_dls_PeekNext(headLinkPtr, nextPtr) ==
    IF nextPtr = headLinkPtr THEN NullLink ELSE nextPtr

(* a removal that unlinks the head whatever link it is given *)
le_dls_Remove_Head(list, link) == RemoveAt(list, 1)

(* le_dls_Remove(&recRef->timestampList, linkPtr).  The link lies in the   *)
(* TimestampData_t block released just before; a released block of a       *)
(* memory pool keeps its contents until it is allocated again, so the      *)
(* link is unlinked as it would be before the release.                     *)
le_dls_Remove(list, link) == RemoveAt(list, link.at)

(* the scan of DeleteTimestamp for this timestamp, about to test linkPtr;  *)
(* before is the timestamp list the function was called with               *)
Scanning(timestamp, linkPtr, before) ==
    [fn |-> "DeleteTimestamp", timestamp |-> timestamp, linkPtr |-> linkPtr,
     before |-> before]

(* DeleteData(recRef, path, timestamp) up to its call of DeleteTimestamp,  *)
(* which starts its scan at the head of the timestamp list                 *)
DeleteDataCall(path, timestamp) ==
    /\ loop.fn # "DeleteTimestamp"
    /\ GetTimestamp(recRef, timestamp) = LE_OK
    /\ recRef' = DeleteResourceData(recRef, path, timestamp)
    /\ loop' = IF GetResourceDataTimestampCount(
                      DeleteResourceData(recRef, path, timestamp), timestamp) = 0
               THEN Scanning(timestamp,
                             le_dls_Peek("timestampList", Len(recRef.timestampList)),
                             recRef.timestampList)
               ELSE NoLoop
    /\ call' = [NoCall EXCEPT !.fn = "DeleteData", !.path = path, !.ts = timestamp]
    /\ result' = "none"
    /\ sent' = <<>>
    /\ UNCHANGED <<pushInFlight, pushCallback, handlerCalls, writtenType, refVars, pool>>

(* One iteration of while (linkPtr != NULL): the link that holds the       *)
(* timestamp is released and removed and the scan ends; from any other     *)
(* link the scan steps to the next link, asking le_dls_PeekNext with the   *)
(* resource list.                                                          *)
DeleteTimestampIteration ==
    /\ loop.fn = "DeleteTimestamp"
    /\ loop.linkPtr # NullLink
    /\ IF recRef.timestampList[loop.linkPtr.at] = loop.timestamp
       THEN /\ recRef' = [recRef EXCEPT !.timestampList = le_dls_Remove(@, loop.linkPtr)]
            /\ loop' = [loop EXCEPT !.linkPtr = NullLink]
       ELSE /\ loop' = [loop EXCEPT !.linkPtr =
                           le_dls_PeekNext(
                               le_dls_Peek("resourceList", Len(recRef.resourceList)),
                               NextPtr(loop.linkPtr, Len(recRef.timestampList)))]
            /\ UNCHANGED recRef
    /\ UNCHANGED <<call, result, sent, pushInFlight, pushCallback, handlerCalls,
                   writtenType, refVars, pool>>

(* linkPtr == NULL: the loop is left and DeleteTimestamp returns *)
DeleteTimestampReturn ==
    /\ loop.fn = "DeleteTimestamp"
    /\ loop.linkPtr = NullLink
    /\ loop' = [loop EXCEPT !.fn = "returned"]
    /\ UNCHANGED <<recRef, call, result, sent, pushInFlight, pushCallback, handlerCalls,
                   writtenType, refVars, pool>>

(* Inputs of SpecDel: records built by adds in any order, one of them      *)
(* leaving a timestamp without value; DeleteData is called for any path    *)
(* and any timestamp of the list, and no call is made while DeleteTimestamp *)
(* is scanning.  An iteration of the loop that can run does run.           *)
DelSamples ==
    {Sample(PathX, DATA_TYPE_INT, NumValue(5), U64(0, 10)),
     Sample(PathX, DATA_TYPE_INT, NumValue(5), U64(0, 5)),
     Sample(PathY, DATA_TYPE_INT, NumValue(9), U64(0, 20)),
     Sample(PathTooLong, DATA_TYPE_INT, NumValue(1), U64(0, 30))}

NextDel ==
    \/ \E s \in DelSamples : loop.fn # "DeleteTimestamp" /\ AddInt(s)
    \/ \E s \in DelSamples : DeleteDataCall(s.path, s.ts)
    \/ DeleteTimestampIteration
    \/ DeleteTimestampReturn

SpecDel ==
    /\ Init
    /\ [][NextDel]_vars
    /\ WF_vars(DeleteTimestampIteration)
    /\ WF_vars(DeleteTimestampReturn)

----------------------------------------------------------------------------
(* Record references (le_avdata_CreateRecord .. le_avdata_DeleteRecord).   *)
(* A safe reference is a number, a record pointer is a number, NULL is 0.  *)

MaxRefs == 2

Restrict(f, keep) == [x \in keep |-> f[x]]

(* le_mem_ForceAlloc(RecordDataPoolRef): a block that is not in use *)
FreeBlock(heap) ==
    CHOOSE p \in 1..(Cardinality(DOMAIN heap) + 1) :
        p \notin DOMAIN heap /\ \A q \in 1..(p - 1) : q \in DOMAIN heap

(* timeSeries_Delete: the record is reset and released *)
timeSeries_Delete(heap, ptr) == Restrict(heap, DOMAIN heap \ {ptr})

(* the references of a session that closes: everything from every client *)
RefsOfSession_All(map, sessionRef) == DOMAIN map

(* the references whose clientSessionRef is the session that closes *)
RefsOfSession(map, sessionRef) ==
    {r \in DOMAIN map : map[r].clientSessionRef = sessionRef}

PointersOf(map, refs) == {map[r].recRef : r \in refs}

(* ClientCloseSessionHandler on [map, heap]: the records of the closed     *)
(* session are deleted and their safe references removed                   *)
ClientCloseSessionHandler(map, heap, sessionRef) ==
    [map |-> Restrict(map, DOMAIN map \ RefsOfSession(map, sessionRef)),
     heap |-> Restrict(heap, DOMAIN heap
                              \ PointersOf(map, RefsOfSession(map, sessionRef)))]

(* le_ref_Lookup then GetRecRefFromSafeRef: the record, NULL when the safe *)
(* reference is not in the map                                             *)
GetRecRefFromSafeRef(map, safeRef) ==
    IF safeRef \in DOMAIN map THEN map[safeRef].recRef ELSE 0

RefCall(fn, s, safeRef, tsFn, ptr, gone) ==
    [fn |-> fn, session |-> s, ref |-> safeRef, entered |-> tsFn, arg |-> ptr,
     released |-> gone]

le_avdata_CreateRecord(s) ==
    /\ daemon = "running"
    /\ s \in sessions
    /\ nextRef <= MaxRefs
    /\ records' = [p \in DOMAIN records \cup {FreeBlock(records)} |->
                     IF p \in DOMAIN records THEN records[p] ELSE NewRecord]
    /\ RecordRefMap' = [r \in DOMAIN RecordRefMap \cup {nextRef} |->
                          IF r \in DOMAIN RecordRefMap THEN RecordRefMap[r]
                          ELSE [recRef |-> FreeBlock(records), clientSessionRef |-> s]]
    /\ nextRef' = nextRef + 1
    /\ refCall' = RefCall("le_avdata_CreateRecord", s, nextRef, "timeSeries_Create",
                          FreeBlock(records), {})
    /\ UNCHANGED <<sessions, daemon>>

(* A call with a safe reference that is not in the map: LE_KILL_CLIENT     *)
(* closes the session of the caller, GetRecRefFromSafeRef returns NULL and *)
(* the caller passes it on to the time series function, which reads        *)
(* through it: the daemon takes a fault, or the read goes through.         *)
(* GetRecRefFromSafeRef itself touches neither the map nor the records.    *)
(* Whether the close handler of the service has run for the session by the *)
(* time the call goes on is up to LE_KILL_CLIENT: the map and the records  *)
(* are as they were, or as the handler leaves them (closed).               *)
InvalidRefCall(fn, s, safeRef, tsFn, closed) ==
    /\ \E after \in {[map |-> RecordRefMap, heap |-> records], closed} :
          /\ RecordRefMap' = after.map
          /\ records' = after.heap
          /\ refCall' = RefCall(fn, s, safeRef, tsFn, 0,
                                DOMAIN RecordRefMap \ DOMAIN after.map)
    /\ sessions' = sessions \ {s}
    /\ daemon' \in {"crashed", "running"}
    /\ UNCHANGED nextRef

RefCallReturn(fn, s, safeRef, tsFn, out) ==
    /\ records' = [records EXCEPT ![GetRecRefFromSafeRef(RecordRefMap, safeRef)] = out.rec]
    /\ refCall' = RefCall(fn, s, safeRef, tsFn,
                          GetRecRefFromSafeRef(RecordRefMap, safeRef), {})
    /\ UNCHANGED <<RecordRefMap, sessions, nextRef, daemon>>

RefSample == Sample(PathX, DATA_TYPE_INT, NumValue(5), U64(0, 10))

le_avdata_RecordInt(s, safeRef) ==
    /\ daemon = "running"
    /\ s \in sessions
    /\ IF GetRecRefFromSafeRef(RecordRefMap, safeRef) = 0
       THEN InvalidRefCall("le_avdata_RecordInt", s, safeRef, "timeSeries_AddInt",
                           ClientCloseSessionHandler(RecordRefMap, records, s))
       ELSE RefCallReturn("le_avdata_RecordInt", s, safeRef, "timeSeries_AddInt",
                          timeSeries_AddInt(
                              records[GetRecRefFromSafeRef(RecordRefMap, safeRef)],
                              RefSample.path, RefSample.value.n, RefSample.ts))

le_avdata_PushRecord(s, safeRef, rc) ==
    /\ daemon = "running"
    /\ s \in sessions
    /\ rc \in PushResults
    /\ IF GetRecRefFromSafeRef(RecordRefMap, safeRef) = 0
       THEN InvalidRefCall("le_avdata_PushRecord", s, safeRef, "timeSeries_PushRecord",
                           ClientCloseSessionHandler(RecordRefMap, records, s))
       ELSE RefCallReturn("le_avdata_PushRecord", s, safeRef, "timeSeries_PushRecord",
                          timeSeries_PushRecord(
                              records[GetRecRefFromSafeRef(RecordRefMap, safeRef)],
                              "handlerPtr", rc))

(* the safe reference of the deleted record is removed from the map *)
DeleteRef(map, ptr) == Restrict(map, {r \in DOMAIN map : map[r].recRef # ptr})

le_avdata_DeleteRecord(s, safeRef) ==
    /\ daemon = "running"
    /\ s \in sessions
    /\ IF GetRecRefFromSafeRef(RecordRefMap, safeRef) = 0
       THEN InvalidRefCall("le_avdata_DeleteRecord", s, safeRef, "timeSeries_Delete",
                           ClientCloseSessionHandler(RecordRefMap, records, s))
       ELSE /\ records' = timeSeries_Delete(records,
                                            GetRecRefFromSafeRef(RecordRefMap, safeRef))
            /\ RecordRefMap' = DeleteRef(RecordRefMap,
                                         GetRecRefFromSafeRef(RecordRefMap, safeRef))
            /\ refCall' = RefCall("le_avdata_DeleteRecord", s, safeRef, "timeSeries_Delete",
                                  GetRecRefFromSafeRef(RecordRefMap, safeRef), {safeRef})
            /\ UNCHANGED <<sessions, nextRef, daemon>>

SessionClosed(s, closed) ==
    /\ RecordRefMap' = closed.map
    /\ records' = closed.heap
    /\ sessions' = sessions \ {s}
    /\ refCall' = RefCall("ClientCloseSessionHandler", s, 0, "none", 0,
                          DOMAIN RecordRefMap \ DOMAIN closed.map)
    /\ UNCHANGED <<nextRef, daemon>>

(* A client disconnects, or the session of a killed client that still     *)
(* owns records is torn down: the service close handler runs for the       *)
(* session.                                                                *)
CloseSession(s) ==
    /\ daemon = "running"
    /\ s \in sessions \/ RefsOfSession(RecordRefMap, s) # {}
    /\ SessionClosed(s, ClientCloseSessionHandler(RecordRefMap, records, s))

recVars == <<recRef, call, result, sent, pushInFlight, pushCallback,
             handlerCalls, writtenType, pool, loop>>

SafeRefs == 1..MaxRefs

NextRef ==
    \/ \E s \in Sessions : le_avdata_CreateRecord(s) /\ UNCHANGED recVars
    \/ \E s \in Sessions : \E r \in SafeRefs : le_avdata_RecordInt(s, r) /\ UNCHANGED recVars
    \/ \E s \in Sessions : \E r \in SafeRefs : \E rc \in PushResults :
          le_avdata_PushRecord(s, r, rc) /\ UNCHANGED recVars
    \/ \E s \in Sessions : \E r \in SafeRefs :
          le_avdata_DeleteRecord(s, r) /\ UNCHANGED recVars
    \/ \E s \in Sessions : CloseSession(s) /\ UNCHANGED recVars

SpecRef == Init /\ [][NextRef]_vars

----------------------------------------------------------------------------
(* Properties *)

IsAdd(c) ==
    c.fn \in {"timeSeries_AddInt", "timeSeries_AddFloat", "timeSeries_AddBool",
              "timeSeries_AddString"}

IsPush(c) == c.fn = "timeSeries_PushRecord"

(* the timestamps, the resources with their values, and the factor *)
RecordData(rec) ==
    [timestampList |-> rec.timestampList,
     resourceList |-> rec.resourceList,
     timestampFactor |-> rec.timestampFactor]

(* the encoding of a record without timestamps and resources *)
EmptyContainer ==
    <<Item("map", 3, ""), Item("text", 1, "h"), Item("array", 0, ""),
      Item("text", 1, "f"), Item("array", 1, ""), Item("double", 1, ""),
      Item("text", 1, "s"), Item("array", 0, "")>>

(* C1: between calls the timestamp list is strictly ascending, whatever    *)
(* the order of the timestamps of the samples added.                       *)
C1_TimestampsAscending ==
    \A i \in 1..(Len(recRef.timestampList) - 1) :
        Less64(recRef.timestampList[i], recRef.timestampList[i + 1])

(* C2: when an add returns LE_NO_MEMORY, a full encode of the record       *)
(* succeeds and gives the bytes a full encode gave before the call.        *)
C2_RollbackRestoresEncoding ==
    [][(IsAdd(call') /\ result' = LE_NO_MEMORY)
        => /\ EncodeFrom(recRef').result = LE_OK
           /\ EncodeFrom(recRef').enc.items = EncodeFrom(recRef).enc.items]_vars

(* C3: between calls a full encode of the record fits the 4096 byte        *)
(* buffer.                                                                 *)
C3_AlwaysEncodable == EncodeFrom(recRef).result = LE_OK

(* C4: an add for a path that is in the record with another type returns   *)
(* LE_FAULT and leaves the whole record as it was: timestamps, resources,  *)
(* values, buffer and encoded flag.                                        *)
C4_TypeMismatchRejected ==
    [][(/\ IsAdd(call')
        /\ \E i \in 1..Len(recRef.resourceList) :
              /\ recRef.resourceList[i].name = call'.path
              /\ recRef.resourceList[i].type # call'.type)
        => (result' = LE_FAULT /\ recRef' = recRef)]_vars

(* C4 witness: an add has been rejected for a path the record holds with   *)
(* another type                                                            *)
C4_Witness ==
    /\ IsAdd(call)
    /\ result = LE_FAULT
    /\ \E i \in 1..Len(recRef.resourceList) :
          /\ recRef.resourceList[i].name = call.path
          /\ recRef.resourceList[i].type # call.type

(* C5: once a sample of type T was accepted for a path, no add of another  *)
(* type for that path returns LE_OK until the record is reset.             *)
C5_TypeFixedUntilReset ==
    [][(/\ IsAdd(call')
        /\ call'.path \in DOMAIN writtenType
        /\ writtenType[call'.path] # call'.type)
        => result' # LE_OK]_vars

(* C6: between calls every timestamp of the list has a value in at least   *)
(* one resource.                                                           *)
C6_TimestampsHaveData ==
    \A i \in 1..Len(recRef.timestampList) :
        GetResourceDataTimestampCount(recRef, recRef.timestampList[i]) > 0

(* C7: after a push that returned LE_OK the record has no resource and no  *)
(* timestamp, factor 1 and no valid encoding, and a full encode gives the  *)
(* empty container.                                                        *)
C7_ResetAfterPush ==
    (IsPush(call) /\ result = LE_OK)
    => /\ recRef.resourceList = <<>>
       /\ recRef.timestampList = <<>>
       /\ recRef.timestampFactor = 1
       /\ ~recRef.isEncoded
       /\ Encode(recRef).result = LE_OK
       /\ Encode(recRef).rec.bufferPtr = EmptyContainer

(* C7 witness: a push of a record that held data has returned LE_OK *)
C7_Witness ==
    /\ IsPush(call)
    /\ result = LE_OK
    /\ sent # <<>>
    /\ sent # <<Deflate(EmptyContainer)>>

(* C8: a push whose send fails leaves timestamps, resources, values and    *)
(* factor as they were, and a push called right after it hands the         *)
(* transport the same bytes.                                               *)
C8_FailedPushKeepsRecord ==
    [][/\ (IsPush(call') /\ sent' # <<>> /\ result' \in {LE_BUSY, LE_FAULT})
          => RecordData(recRef') = RecordData(recRef)
       /\ (SendFailed /\ IsPush(call'))
          => sent' = sent]_vars

(* C8 witness: a push of a record that holds data has been retried after   *)
(* a failed send                                                           *)
C8_Witness ==
    /\ IsPush(call)
    /\ call.retry
    /\ sent # <<>>
    /\ recRef.timestampList # <<>>
    /\ recRef.resourceList # <<>>

(* C9: once a push call is over and no send of it is pending, its          *)
(* completion handler has been invoked exactly once.                       *)
C9_HandlerCalledOnce ==
    (IsPush(call) /\ ~pushInFlight) => handlerCalls = 1

(* C10: the step in which a push is handed to the transport, and not yet   *)
(* completed, leaves timestamps, resources and values in the record.       *)
C10_NoResetBeforeCompletion ==
    [][(IsPush(call') /\ result' = LE_OK /\ sent' # <<>> /\ pushInFlight')
        => RecordData(recRef') = RecordData(recRef)]_vars

(* Positions in a full encoding of a record with n resources: the header  *)
(* array is item 3, the factor array item 5 + n, the sample array item     *)
(* 8 + 2n; element j of row i of the samples (j = 0 is the timestamp)      *)
(* follows at (i - 1)(n + 1) + 1 + j.                                      *)
SampleBase(rec) == 8 + 2 * Len(rec.resourceList)

ElementAt(items, rec, i, j) ==
    items[SampleBase(rec) + (i - 1) * (Len(rec.resourceList) + 1) + 1 + j]

FullEncodeOk(rec) == EncodeFrom(rec).result = LE_OK

ArrayLengths(items, n, t) ==
    /\ Len(items) = 8 + 2 * n + (n + 1) * t
    /\ items[3] = Item("array", n, "")
    /\ \A j \in 1..n : items[3 + j].k = "text"
    /\ items[4 + n] = Item("text", 1, "f")
    /\ items[5 + n] = Item("array", n + 1, "")
    /\ \A j \in 1..(n + 1) : items[5 + n + j].k = "double"
    /\ items[7 + 2 * n] = Item("text", 1, "s")
    /\ items[8 + 2 * n] = Item("array", (n + 1) * t, "")

(* C11: a successful full encode has a header array of as many names as    *)
(* there are resources, a factor array of one more element, and a sample   *)
(* array whose declared length, (resources + 1) x timestamps, is the       *)
(* number of elements written into it.                                     *)
C11_ArrayLengths ==
    FullEncodeOk(recRef)
    => ArrayLengths(EncodeFrom(recRef).enc.items, Len(recRef.resourceList),
                    Len(recRef.timestampList))

(* C11 witness: a record of two resources and two timestamps encodes *)
C11_Witness ==
    /\ FullEncodeOk(recRef)
    /\ Len(recRef.resourceList) = 2
    /\ Len(recRef.timestampList) = 2
    /\ Len(EncodeFrom(recRef).enc.items) = 18

(* a number of hi * 2^32 + lo as the uint item that carries it; the mark   *)
(* of a number below 0 is one no item written has                          *)
ExactItem(hi, lo, factor) ==
    Item("uint", lo * factor,
         CASE hi = 0 -> "" [] hi = 1 -> Wrapped [] OTHER -> "-2^32")

ExpectedTimestamp(rec, i) ==
    IF i = 1
    THEN ExactItem(rec.timestampList[1].hi, rec.timestampList[1].lo, rec.timestampFactor)
    ELSE ExactItem(rec.timestampList[i].hi - rec.timestampList[i - 1].hi,
                   rec.timestampList[i].lo - rec.timestampList[i - 1].lo,
                   rec.timestampFactor)

(* C12: in a successful full encode the timestamp element of the first row *)
(* is timestamp x factor and that of every later row is (timestamp -       *)
(* timestamp of the row before) x factor.                                  *)
C12_TimestampDeltas ==
    FullEncodeOk(recRef)
    => \A i \in 1..Len(recRef.timestampList) :
          ElementAt(EncodeFrom(recRef).enc.items, recRef, i, 0)
             = ExpectedTimestamp(recRef, i)

ExpectedNumber(res, tsList, i) ==
    IF i = 1
    THEN res.data[tsList[1]].n * res.factor
    ELSE IF tsList[i - 1] \in DOMAIN res.data
    THEN (res.data[tsList[i]].n - res.data[tsList[i - 1]].n) * res.factor
    ELSE (res.data[tsList[i]].n - 0) * res.factor

NumberKind(res) == IF res.type = DATA_TYPE_INT THEN "int" ELSE "double"

(* C13: in a successful full encode an int or float resource that has a    *)
(* value at a row is written as (value - its value at the row before) x    *)
(* factor, with 0 for the value at the row before when it has none there,  *)
(* and as value x factor on the first row.                                 *)
C13_NumberDeltas ==
    FullEncodeOk(recRef)
    => \A i \in 1..Len(recRef.timestampList) : \A j \in 1..Len(recRef.resourceList) :
          (/\ recRef.resourceList[j].type \in {DATA_TYPE_INT, DATA_TYPE_FLOAT}
           /\ recRef.timestampList[i] \in DOMAIN recRef.resourceList[j].data)
          => ElementAt(EncodeFrom(recRef).enc.items, recRef, i, j)
                = Item(NumberKind(recRef.resourceList[j]),
                       ExpectedNumber(recRef.resourceList[j], recRef.timestampList, i), "")

(* C13 witness: an int resource has a value at rows 1 and 3 and none at    *)
(* row 2, and a float resource has a value at rows 2 and 3                 *)
C13_Witness ==
    /\ FullEncodeOk(recRef)
    /\ Len(recRef.timestampList) = 3
    /\ \E j \in 1..Len(recRef.resourceList) :
          /\ recRef.resourceList[j].type = DATA_TYPE_INT
          /\ recRef.timestampList[1] \in DOMAIN recRef.resourceList[j].data
          /\ recRef.timestampList[2] \notin DOMAIN recRef.resourceList[j].data
          /\ recRef.timestampList[3] \in DOMAIN recRef.resourceList[j].data
    /\ \E j \in 1..Len(recRef.resourceList) :
          /\ recRef.resourceList[j].type = DATA_TYPE_FLOAT
          /\ recRef.timestampList[2] \in DOMAIN recRef.resourceList[j].data
          /\ recRef.timestampList[3] \in DOMAIN recRef.resourceList[j].data

ExpectedDefault(res) ==
    CASE res.type = DATA_TYPE_INT -> Item("int", 0, "")
      [] res.type = DATA_TYPE_FLOAT -> Item("double", 0, "")
      [] res.type = DATA_TYPE_BOOL -> Item("bool", 0, "")
      [] res.type = DATA_TYPE_STRING -> Item("text", 0, "")

ExpectedRaw(res, ts) ==
    IF res.type = DATA_TYPE_BOOL
    THEN Item("bool", res.data[ts].n, "")
    ELSE Item("text", res.data[ts].n, res.data[ts].ch)

(* C14: in a successful full encode a resource without a value at a row is *)
(* written as the default of its type (0, 0.0, false, empty string), and a *)
(* bool or string resource with a value as that value.                     *)
C14_DefaultsAndRawValues ==
    FullEncodeOk(recRef)
    => \A i \in 1..Len(recRef.timestampList) : \A j \in 1..Len(recRef.resourceList) :
          /\ recRef.timestampList[i] \notin DOMAIN recRef.resourceList[j].data
             => ElementAt(EncodeFrom(recRef).enc.items, recRef, i, j)
                   = ExpectedDefault(recRef.resourceList[j])
          /\ (/\ recRef.timestampList[i] \in DOMAIN recRef.resourceList[j].data
              /\ recRef.resourceList[j].type \in {DATA_TYPE_BOOL, DATA_TYPE_STRING})
             => ElementAt(EncodeFrom(recRef).enc.items, recRef, i, j)
                   = ExpectedRaw(recRef.resourceList[j], recRef.timestampList[i])

(* C14 witness: int x at timestamps 10 and 20, int y at 20 only; y is      *)
(* written as 0 in the row of 10 and as 9 in the row of 20                 *)
C14_Witness ==
    /\ FullEncodeOk(recRef)
    /\ recRef.timestampList = <<U64(0, 10), U64(0, 20)>>
    /\ Len(recRef.resourceList) = 2
    /\ recRef.resourceList[1].name = PathX
    /\ DOMAIN recRef.resourceList[1].data = {U64(0, 10), U64(0, 20)}
    /\ recRef.resourceList[2].type = DATA_TYPE_INT
    /\ DOMAIN recRef.resourceList[2].data = {U64(0, 20)}
    /\ ElementAt(EncodeFrom(recRef).enc.items, recRef, 1, 2) = Item("int", 0, "")
    /\ ElementAt(EncodeFrom(recRef).enc.items, recRef, 2, 2) = Item("int", 9, "")

(* the step is a push that reset the record *)
ResetStep == IsPush(call') /\ result' = LE_OK

(* the resource of this name holds a value at a timestamp other than ts *)
HasOtherValue(rec, path, ts) ==
    \E j \in 1..Len(rec.resourceList) :
        /\ rec.resourceList[j].name = path
        /\ DOMAIN rec.resourceList[j].data \ {ts} # {}

(* C15, as stated: a resource, once created by an add, stays in the record *)
(* until the record is reset, also when the add is rolled back and the     *)
(* resource is left without a value.                                       *)
C15_ColumnsPersist ==
    [][(IsAdd(call') /\ ~ResetStep)
        => Names(FindOrCreateResource(recRef, call'.path, call'.type, call'.ts).rec)
              \subseteq Names(recRef')]_vars

(* C15, amended: the rollback of an add that returns LE_NO_MEMORY removes  *)
(* the resource together with its last value: the resource is in the       *)
(* record after the call exactly when it held a value at another           *)
(* timestamp, and every resource of the record holds at least one value.   *)
C15_EmptyColumnRemoved ==
    [][(IsAdd(call') /\ result' = LE_NO_MEMORY)
        => /\ call'.path \in Names(recRef') <=> HasOtherValue(recRef, call'.path, call'.ts)
           /\ \A j \in 1..Len(recRef'.resourceList) :
                 DOMAIN recRef'.resourceList[j].data # {}]_vars

(* C15 witness: an add was rolled back and its resource is not in the      *)
(* record, which holds other resources                                     *)
C15_Witness ==
    /\ IsAdd(call)
    /\ result = LE_NO_MEMORY
    /\ call.path \notin Names(recRef)
    /\ Len(recRef.resourceList) = Len(LongPathChars)

(* C16: between its creation and the next reset a resource keeps its       *)
(* position in the resource list, and so in the header, the factors and    *)
(* every sample row, whatever adds are made, rolled back ones included.    *)
C16_ColumnOrderStable ==
    [][~ResetStep
        => \A j \in 1..Len(recRef.resourceList) : \A k \in 1..Len(recRef'.resourceList) :
              recRef.resourceList[j].name = recRef'.resourceList[k].name => j = k]_vars

(* C17: an add that returns LE_OK leaves the value of the call stored for  *)
(* its path and timestamp, and every other stored value as it was.         *)
C17_AddStoresValue ==
    [][(IsAdd(call') /\ result' = LE_OK)
        => /\ \E k \in 1..Len(recRef'.resourceList) :
                 /\ recRef'.resourceList[k].name = call'.path
                 /\ call'.ts \in DOMAIN recRef'.resourceList[k].data
                 /\ recRef'.resourceList[k].data[call'.ts] = call'.value
           /\ \A j \in 1..Len(recRef.resourceList) :
                 \A t \in DOMAIN recRef.resourceList[j].data :
                    (recRef.resourceList[j].name # call'.path \/ t # call'.ts)
                    => /\ j <= Len(recRef'.resourceList)
                       /\ recRef'.resourceList[j].name = recRef.resourceList[j].name
                       /\ t \in DOMAIN recRef'.resourceList[j].data
                       /\ recRef'.resourceList[j].data[t] = recRef.resourceList[j].data[t]]_vars

(* C18: a push called after an add that returned LE_NO_MEMORY encodes the  *)
(* record and hands it to the transport, and an add on the record a        *)
(* successful push has emptied returns LE_OK for a sample that fits an     *)
(* empty record.                                                           *)
C18_NoMemoryNeverStuck ==
    [][/\ (IsAdd(call) /\ result = LE_NO_MEMORY /\ IsPush(call')) => sent' # <<>>
       /\ (/\ IsPush(call) /\ result = LE_OK
           /\ IsAdd(call')
           /\ call'.path.len < LE_AVDATA_PATH_NAME_LEN)
          => result' = LE_OK]_vars

(* C19: when a client session closes, every record the session created is *)
(* deleted and its safe reference removed from the map, and every other    *)
(* safe reference still maps to the same record, which is unchanged.       *)
C19_SessionCloseDeletesOwnRecords ==
    [][refCall'.fn = "ClientCloseSessionHandler" => \A r \in DOMAIN RecordRefMap :
          IF RecordRefMap[r].clientSessionRef = refCall'.session
          THEN /\ r \notin DOMAIN RecordRefMap'
               /\ RecordRefMap[r].recRef \notin DOMAIN records'
          ELSE /\ r \in DOMAIN RecordRefMap'
               /\ RecordRefMap'[r] = RecordRefMap[r]
               /\ RecordRefMap[r].recRef \in DOMAIN records'
               /\ records'[RecordRefMap[r].recRef] = records[RecordRefMap[r].recRef]]_vars

(* C19 witness: a session that had a record has closed while a record of   *)
(* the other session, holding a sample, is still in the map                *)
C19_Witness ==
    /\ refCall.fn = "ClientCloseSessionHandler"
    /\ refCall.released # {}
    /\ \E r \in DOMAIN RecordRefMap :
          /\ RecordRefMap[r].clientSessionRef # refCall.session
          /\ records[RecordRefMap[r].recRef].timestampList # <<>>

(* C20: a call made with a safe reference that is not in the map closes    *)
(* the session of the caller and enters no time series function: nothing   *)
(* is read, modified or freed, and the daemon keeps running.               *)
C20_InvalidRefNoOperation ==
    (refCall.ref # 0 /\ refCall.arg = 0)
    => /\ refCall.session \notin sessions
       /\ refCall.entered = "none"
       /\ daemon = "running"

(* the record is flagged as encoded and its buffer holds what a full       *)
(* encode of its timestamps, resources and values gives                    *)
BufferIsCurrent(rec) ==
    /\ EncodeFrom(rec).result = LE_OK
    /\ rec.bufferPtr = EncodeFrom(rec).enc.items

(* the step is a call of timeSeries_PushRecord *)
PushStep == \E rc \in PushResults : PushRecord(rc)

(* the step is a call of one of the add functions: the completion of a     *)
(* push is the one other step that leaves call as it was, and it changes   *)
(* pushInFlight                                                            *)
AddStep == IsAdd(call') /\ pushInFlight' = pushInFlight

(* C21: whenever isEncoded is set the buffer holds the encoding of the     *)
(* timestamps, resources and values the record holds now, and a push hands *)
(* the transport the encoding of what the record held when it was called.  *)
C21_EncodedFlagValid ==
    [][/\ recRef'.isEncoded => BufferIsCurrent(recRef')
       /\ (PushStep /\ sent' # <<>>)
          => sent' = <<Deflate(EncodeFrom(recRef).enc.items)>>]_vars

(* Every element a full encode of the record writes, whatever the size of  *)
(* the buffer: the map, the header with the names, the factors, and the    *)
(* sample rows of a timestamp element and one element per resource.        *)
NameItems(rec) ==
    [j \in 1..Len(rec.resourceList) |->
        Item("text", rec.resourceList[j].name.len, rec.resourceList[j].name.ch)]

FactorItems(rec) ==
    <<Item("double", rec.timestampFactor, "")>>
    \o [j \in 1..Len(rec.resourceList) |-> Item("double", rec.resourceList[j].factor, "")]

ValueItem(res, curTs, hasPrev, prevTs) ==
    IF ContainsKey(res, curTs) THEN DeltaItem(res, curTs, hasPrev, prevTs)
    ELSE DefaultItem(res)

RowItems(rec, curTs, hasPrev, prevTs) ==
    <<TimestampItem(rec, curTs, hasPrev, prevTs)>>
    \o [j \in 1..Len(rec.resourceList) |->
          ValueItem(rec.resourceList[j], curTs, hasPrev, prevTs)]

RECURSIVE SampleItems(_, _)
SampleItems(rec, i) ==
    IF i > Len(rec.timestampList) THEN <<>>
    ELSE RowItems(rec, rec.timestampList[i], i > 1,
                  IF i > 1 THEN rec.timestampList[i - 1] ELSE NoTimestamp)
         \o SampleItems(rec, i + 1)

AllItems(rec) ==
    <<Item("map", NUM_TIME_SERIES_MAPS, ""), Item("text", 1, "h"),
      Item("array", GetResourceCount(rec), "")>>
    \o NameItems(rec)
    \o <<Item("text", 1, "f"), Item("array", GetResourceCount(rec) + 1, "")>>
    \o FactorItems(rec)
    \o <<Item("text", 1, "s"),
         Item("array", (GetResourceCount(rec) + 1) * GetTimestampCount(rec), "")>>
    \o SampleItems(rec, 1)

(* every element fits the buffer when it is written *)
AllFit(rec) == SizeOf(AllItems(rec)) <= MAX_CBOR_BUFFER_NUMBYTES

(* the value an add stores for the value it was called with *)
StoredValue(c) ==
    IF c.type = DATA_TYPE_STRING
    THEN StrValue(Utf8Copy(Str(c.value.ch, c.value.n), LE_AVDATA_STRING_VALUE_LEN))
    ELSE c.value

(* the add reaches the encode: its resource was found or created *)
ReachesEncode(rec, c) == FindOrCreateResource(rec, c.path, c.type, c.ts).result = LE_OK

(* the record the encode inside an add is run on: the timestamp, the       *)
(* resource and the value of the call are in                               *)
Attempted(rec, c) ==
    PutData(FindOrCreateResource(rec, c.path, c.type, c.ts).rec, c.path, c.ts, StoredValue(c))

(* C22: the encode inside an add or a push returns LE_OK and sets          *)
(* isEncoded exactly when every element of the header, the factors and the *)
(* sample rows fits the buffer, and then the buffer holds all of them; an  *)
(* element that does not fit, wherever it is, gives LE_NO_MEMORY and       *)
(* leaves isEncoded clear.                                                 *)
C22_EncodeChecksEveryElement ==
    [][/\ (AddStep /\ ReachesEncode(recRef, call'))
          => IF AllFit(Attempted(recRef, call'))
             THEN /\ result' = LE_OK
                  /\ recRef'.isEncoded
                  /\ recRef'.bufferPtr = AllItems(Attempted(recRef, call'))
             ELSE /\ result' = LE_NO_MEMORY
                  /\ ~recRef'.isEncoded
       /\ (PushStep /\ ~recRef.isEncoded)
          => IF AllFit(recRef)
             THEN sent' = <<Deflate(AllItems(recRef))>>
             ELSE /\ result' = LE_NO_MEMORY
                  /\ sent' = <<>>
                  /\ ~recRef'.isEncoded]_vars

(* the element that is the first not to fit is followed by an element that *)
(* would have fitted in its place                                          *)
OverflowsBeforeLast(items) ==
    \E k \in 1..(Len(items) - 1) :
        /\ SizeOf(SubSeq(items, 1, k - 1)) <= MAX_CBOR_BUFFER_NUMBYTES
        /\ SizeOf(SubSeq(items, 1, k)) > MAX_CBOR_BUFFER_NUMBYTES
        /\ SizeOf(SubSeq(items, 1, k - 1)) + ItemSize(items[Len(items)])
              <= MAX_CBOR_BUFFER_NUMBYTES

(* C22 witness: an add has returned LE_NO_MEMORY for a record whose encode *)
(* overflowed at a value in the middle of a row, the last value of the row *)
(* being small enough to fit                                               *)
C22_Witness ==
    /\ IsAdd(call)
    /\ result = LE_NO_MEMORY
    /\ ReachesEncode(recRef, call)
    /\ OverflowsBeforeLast(AllItems(Attempted(recRef, call)))

(* the step is an add that returned LE_NO_MEMORY *)
RejectedAdd == AddStep /\ result' = LE_NO_MEMORY

(* C23, as stated: when an add returns LE_NO_MEMORY the record has been    *)
(* encoded again after the removal of the value: isEncoded is set and the  *)
(* buffer holds the encoding of the record as it is on return.             *)
C23_RollbackReencodes ==
    [][RejectedAdd => (recRef'.isEncoded /\ BufferIsCurrent(recRef'))]_vars

(* C23, amended: when an add returns LE_NO_MEMORY the value has been       *)
(* removed and nothing was encoded after that: no value is held at the     *)
(* path and timestamp of the sample, isEncoded is clear, and the buffer    *)
(* still holds what the failed encode had written, which is not what a     *)
(* full encode of the record as it is on return gives.                     *)
C23_RollbackInvalidates ==
    [][RejectedAdd
        => /\ \A k \in 1..Len(recRef'.resourceList) :
                 recRef'.resourceList[k].name = call'.path
                 => call'.ts \notin DOMAIN recRef'.resourceList[k].data
           /\ ~recRef'.isEncoded
           /\ recRef'.bufferPtr = EncodeFrom(Attempted(recRef, call')).enc.items
           /\ recRef'.bufferPtr # AllItems(recRef')]_vars

(* C23 witness: an add has been rejected; its value is not in the record,  *)
(* isEncoded is clear and the buffer holds a failed encoding, which is not *)
(* what a full encode of the record gives; the record itself can be        *)
(* encoded                                                                 *)
C23_Witness ==
    /\ IsAdd(call)
    /\ result = LE_NO_MEMORY
    /\ \A k \in 1..Len(recRef.resourceList) :
          recRef.resourceList[k].name = call.path
          => call.ts \notin DOMAIN recRef.resourceList[k].data
    /\ ~recRef.isEncoded
    /\ recRef.bufferPtr # <<>>
    /\ recRef.bufferPtr # AllItems(recRef)
    /\ AllFit(recRef)
    /\ recRef.resourceList # <<>>

ExpectedFactor(res) ==
    IF res.type \in {DATA_TYPE_INT, DATA_TYPE_FLOAT} THEN 1 ELSE 0

(* the factor array of a full encoding of n resources starts after item    *)
(* 5 + n: the timestamp factor, then one factor per name of the header     *)
FactorArray(items, rec, n) ==
    /\ items[5 + n + 1] = Item("double", 1, "")
    /\ \A j \in 1..n :
          /\ items[3 + j] = Item("text", rec.resourceList[j].name.len,
                                         rec.resourceList[j].name.ch)
          /\ items[5 + n + 1 + j] = Item("double", ExpectedFactor(rec.resourceList[j]), "")

(* C24: the timestamp factor of the record is 1 in every state, and in a   *)
(* successful full encode the factor array holds it first and then, in the *)
(* order of the header, the factor of every resource: 1 for an int or      *)
(* float resource, 0 for a bool or string resource.                        *)
C24_FactorArray ==
    /\ recRef.timestampFactor = 1
    /\ FullEncodeOk(recRef)
       => FactorArray(EncodeFrom(recRef).enc.items, recRef, Len(recRef.resourceList))

(* C24 witness: a string resource and a float resource are encoded with    *)
(* the factors 1, 0, 1                                                     *)
C24_Witness ==
    /\ FullEncodeOk(recRef)
    /\ Len(recRef.resourceList) = 2
    /\ recRef.resourceList[1].type = DATA_TYPE_STRING
    /\ recRef.resourceList[2].type = DATA_TYPE_FLOAT
    /\ SubSeq(EncodeFrom(recRef).enc.items, 8, 10)
          = <<Item("double", 1, ""), Item("double", 0, ""), Item("double", 1, "")>>

(* the record holds a value for the path at the timestamp *)
HoldsValue(rec, path, ts) ==
    \E j \in 1..Len(rec.resourceList) :
        /\ rec.resourceList[j].name = path
        /\ ts \in DOMAIN rec.resourceList[j].data

NoDuplicateTimestamp(rec) ==
    \A i \in 1..Len(rec.timestampList) : \A k \in 1..Len(rec.timestampList) :
        rec.timestampList[i] = rec.timestampList[k] => i = k

(* C25: an add at a timestamp that is in the timestamp list leaves the     *)
(* list as it was, entry by entry, and the list never holds a timestamp    *)
(* twice.                                                                  *)
C25_TimestampInsertIdempotent ==
    [][/\ (AddStep /\ GetTimestamp(recRef, call'.ts) = LE_OK)
          => recRef'.timestampList = recRef.timestampList
       /\ NoDuplicateTimestamp(recRef')]_vars

(* C28: a push of a record that is not encoded and whose elements do not   *)
(* all fit the buffer returns LE_NO_MEMORY, hands nothing to the           *)
(* transport, starts no push and leaves timestamps, resources, values and  *)
(* factor as they were.                                                    *)
C28_PushEncodeFailure ==
    [][(PushStep /\ ~recRef.isEncoded /\ ~AllFit(recRef))
        => /\ result' = LE_NO_MEMORY
           /\ sent' = <<>>
           /\ pushInFlight' = pushInFlight
           /\ RecordData(recRef') = RecordData(recRef)]_vars

(* C28 witness: a push of a record that holds resources and timestamps has *)
(* returned LE_NO_MEMORY                                                   *)
C28_Witness ==
    /\ IsPush(call)
    /\ result = LE_NO_MEMORY
    /\ sent = <<>>
    /\ ~AllFit(recRef)
    /\ recRef.resourceList # <<>>
    /\ recRef.timestampList # <<>>

(* the record holds this value for the path at the timestamp *)
HoldsThisValue(rec, path, ts, v) ==
    \E k \in 1..Len(rec.resourceList) :
        /\ rec.resourceList[k].name = path
        /\ ts \in DOMAIN rec.resourceList[k].data
        /\ rec.resourceList[k].data[ts] = v

(* the step is an add that returned LE_OK for this path and timestamp *)
AcceptedAddFor(path, ts) ==
    AddStep /\ result' = LE_OK /\ call'.path = path /\ call'.ts = ts

(* C29: an add that returns LE_OK leaves its value in the record, and a    *)
(* value in the record stays as it is through every step that is not a     *)
(* reset, rejected adds included, until an add for the same path and       *)
(* timestamp returns LE_OK.                                                *)
C29_AcceptedSampleKept ==
    [][/\ (AddStep /\ result' = LE_OK)
          => HoldsThisValue(recRef', call'.path, call'.ts, call'.value)
       /\ ~ResetStep
          => \A j \in 1..Len(recRef.resourceList) :
                \A t \in DOMAIN recRef.resourceList[j].data :
                   \/ AcceptedAddFor(recRef.resourceList[j].name, t)
                   \/ HoldsThisValue(recRef', recRef.resourceList[j].name, t,
                                     recRef.resourceList[j].data[t])]_vars

(* C30: an add for a path and timestamp that hold no value, when it        *)
(* returns LE_NO_MEMORY, leaves the timestamp list, the resource list      *)
(* (names, types, order) and every stored value as they were before the    *)
(* call, whether the call had created the resource, the timestamp, both    *)
(* or neither.                                                             *)
C30_RollbackOfNewValueExact ==
    [][(RejectedAdd /\ ~HoldsValue(recRef, call'.path, call'.ts))
        => RecordData(recRef') = RecordData(recRef)]_vars

(* C26: in a successful full encode the timestamp element of a row whose   *)
(* timestamp is greater than that of the row before is the exact           *)
(* difference of the two 64-bit timestamps x factor, also when the         *)
(* difference is 2^32 or more.                                             *)
C26_WideTimestampDeltas ==
    FullEncodeOk(recRef)
    => \A i \in 2..Len(recRef.timestampList) :
          Less64(recRef.timestampList[i - 1], recRef.timestampList[i])
          => ElementAt(EncodeFrom(recRef).enc.items, recRef, i, 0)
                = ExactItem(recRef.timestampList[i].hi - recRef.timestampList[i - 1].hi,
                            recRef.timestampList[i].lo - recRef.timestampList[i - 1].lo,
                            recRef.timestampFactor)

(* the difference of two ints as the int item that carries it: an item     *)
(* not marked as the outcome of an overflow, whose halves are those of the *)
(* exact difference                                                        *)
CarriesDifference(it, a, b) ==
    /\ it.k = "int"
    /\ it.ch = ""
    /\ HiHalf(it.n) = ExactDifference(a, b).hi
    /\ LoHalf(it.n) = ExactDifference(a, b).lo

(* C27: in a successful full encode an int resource that has a value at a  *)
(* row after the first is written as the mathematical difference of that   *)
(* value and its value at the row before (0 when it has none there) x      *)
(* factor, also when the difference lies outside the int range.            *)
C27_IntDeltaExact ==
    FullEncodeOk(recRef)
    => \A i \in 2..Len(recRef.timestampList) : \A j \in 1..Len(recRef.resourceList) :
          (/\ recRef.resourceList[j].type = DATA_TYPE_INT
           /\ recRef.timestampList[i] \in DOMAIN recRef.resourceList[j].data)
          => CarriesDifference(ElementAt(EncodeFrom(recRef).enc.items, recRef, i, j),
                               recRef.resourceList[j].data[recRef.timestampList[i]].n,
                               PrevValue(recRef.resourceList[j], recRef.timestampList[i - 1]))

(* the step is an add for a path that is not in the record and whose name  *)
(* does not fit name[LE_AVDATA_PATH_NAME_LEN]                              *)
AddOfTooLongPath ==
    /\ AddStep
    /\ ResourceIndex(recRef.resourceList, call'.path) = 0
    /\ Utf8CopyResult(call'.path, LE_AVDATA_PATH_NAME_LEN) = LE_OVERFLOW

(* C31: an add for a new path whose name is too long to be stored returns  *)
(* LE_OVERFLOW and leaves the record as it was: no timestamp, resource or  *)
(* value is added, and when isEncoded is set the buffer still holds the    *)
(* encoding of what the record holds.                                      *)
C31_OverflowLeavesRecord ==
    [][AddOfTooLongPath
        => /\ result' = LE_OVERFLOW
           /\ RecordData(recRef') = RecordData(recRef)
           /\ recRef'.isEncoded => BufferIsCurrent(recRef')]_vars

(* the values and the string values the record holds *)
RECURSIVE StoredValues(_, _)
StoredValues(rec, j) ==
    IF j > Len(rec.resourceList) THEN 0
    ELSE Cardinality(DOMAIN rec.resourceList[j].data) + StoredValues(rec, j + 1)

RECURSIVE StoredStrings(_, _)
StoredStrings(rec, j) ==
    IF j > Len(rec.resourceList) THEN 0
    ELSE StringsOf(rec.resourceList[j].type, Cardinality(DOMAIN rec.resourceList[j].data))
         + StoredStrings(rec, j + 1)

(* C32: once the record has been reset, every value object and every      *)
(* string payload the adds had allocated has been released, once: a reset  *)
(* leaves no block of the two pools allocated, whatever adds came before   *)
(* it, adds that write a path and timestamp again included.                *)
C32_ValuesReleased ==
    [][ResetStep => (pool'.values = 0 /\ pool'.strings = 0)]_vars

(* C33: when every add is made with a timestamp that no timestamp of the   *)
(* record exceeds, the timestamp list is strictly ascending between calls: *)
(* every link is less than every link after it.                            *)
C33_InOrderAddsAscending ==
    \A i \in 1..Len(recRef.timestampList) : \A k \in 1..Len(recRef.timestampList) :
        i < k => Less64(recRef.timestampList[i], recRef.timestampList[k])

(* C33 witness: three adds in time order have left three timestamps, the   *)
(* last add being the one of the greatest                                  *)
C33_Witness ==
    /\ IsAdd(call)
    /\ result = LE_OK
    /\ Len(recRef.timestampList) = 3
    /\ call.ts = recRef.timestampList[3]
    /\ recRef.timestampList[1] = U64(0, 5)

(* the add function of the type of the sample, as the add actions call it *)
AddSample(rec, s) ==
    CASE s.type = DATA_TYPE_INT -> timeSeries_AddInt(rec, s.path, s.value.n, s.ts)
      [] s.type = DATA_TYPE_FLOAT -> timeSeries_AddFloat(rec, s.path, s.value.n, s.ts)
      [] s.type = DATA_TYPE_BOOL -> timeSeries_AddBool(rec, s.path, s.value.n = 1, s.ts)
      [] s.type = DATA_TYPE_STRING ->
            timeSeries_AddString(rec, s.path, Str(s.value.ch, s.value.n), s.ts)

(* the samples of a sequence added one after the other, from the i-th on:  *)
(* the record they leave, and whether every add returned LE_OK             *)
RECURSIVE AddAll(_, _, _, _)
AddAll(rec, order, i, allOk) ==
    IF i > Len(order) THEN [rec |-> rec, allOk |-> allOk]
    ELSE AddAll(AddSample(rec, order[i]).rec, order, i + 1,
                allOk /\ AddSample(rec, order[i]).result = LE_OK)

(* the values a resource holds, as the samples that wrote them *)
SamplesOf(res) == {Sample(res.name, res.type, res.data[t], t) : t \in DOMAIN res.data}

(* the orders a set of samples can be added in *)
Orders(samples) ==
    {order \in [1..Cardinality(samples) -> samples] :
        \A i \in 1..Cardinality(samples) : \A k \in 1..Cardinality(samples) :
            order[i] = order[k] => i = k}

(* two orders of adding to a new record give the same timestamp list and   *)
(* the same encoding, when every add of both returned LE_OK                *)
SameOutcome(p, q) ==
    (AddAll(NewRecord, p, 1, TRUE).allOk /\ AddAll(NewRecord, q, 1, TRUE).allOk)
    => /\ AddAll(NewRecord, p, 1, TRUE).rec.timestampList
            = AddAll(NewRecord, q, 1, TRUE).rec.timestampList
       /\ EncodeFrom(AddAll(NewRecord, p, 1, TRUE).rec).enc.items
            = EncodeFrom(AddAll(NewRecord, q, 1, TRUE).rec).enc.items

(* C34: for a record of one resource, the samples it holds, added to a new *)
(* record in any two orders with every add returning LE_OK, give the same  *)
(* timestamp list and the same encoded output.                             *)
C34_OrderIndependent ==
    Len(recRef.resourceList) = 1
    => \A p \in Orders(SamplesOf(recRef.resourceList[1])) :
          \A q \in Orders(SamplesOf(recRef.resourceList[1])) : SameOutcome(p, q)

(* the sum of the numbers of the elements of column j (0: the timestamps)  *)
(* over the rows 1 .. i of the sample array                                *)
RECURSIVE RunningSum(_, _, _, _)
RunningSum(items, rec, i, j) ==
    IF i = 0 THEN 0
    ELSE ElementAt(items, rec, i, j).n + RunningSum(items, rec, i - 1, j)

(* the number of elements of column j over the rows 1 .. i that carry this *)
(* mark                                                                    *)
RECURSIVE Marked(_, _, _, _, _)
Marked(items, rec, i, j, mark) ==
    IF i = 0 THEN 0
    ELSE (IF ElementAt(items, rec, i, j).ch = mark THEN 1 ELSE 0)
         + Marked(items, rec, i - 1, j, mark)

(* the resource has a value at every timestamp of the list *)
Dense(rec, j) ==
    \A i \in 1..Len(rec.timestampList) :
        rec.timestampList[i] \in DOMAIN rec.resourceList[j].data

(* C35: in a successful full encode, for an int resource of factor 1 that  *)
(* has a value at every timestamp row, the sum of its elements over the    *)
(* rows up to row i is the value it holds at row i, and the sum of the     *)
(* timestamp elements over the rows up to row i is the i-th timestamp      *)
(* (an element marked Wrapped counting for its number + 2^32).             *)
C35_DeltaInvertible ==
    FullEncodeOk(recRef)
    => \A j \in 1..Len(recRef.resourceList) :
          (/\ recRef.resourceList[j].type = DATA_TYPE_INT
           /\ recRef.resourceList[j].factor = 1
           /\ Dense(recRef, j))
          => \A i \in 1..Len(recRef.timestampList) :
                /\ RunningSum(EncodeFrom(recRef).enc.items, recRef, i, j)
                      = recRef.resourceList[j].data[recRef.timestampList[i]].n
                /\ Marked(EncodeFrom(recRef).enc.items, recRef, i, j, Overflowed) = 0
                /\ U64(Marked(EncodeFrom(recRef).enc.items, recRef, i, 0, Wrapped),
                       RunningSum(EncodeFrom(recRef).enc.items, recRef, i, 0))
                      = recRef.timestampList[i]

(* the step is an add called again with the same path, value and timestamp *)
(* right after it returned LE_OK                                           *)
RepeatedAdd == AddStep /\ IsAdd(call) /\ result = LE_OK /\ call' = call

(* C36: an add called a second time with the same path, value and          *)
(* timestamp, right after it returned LE_OK, returns LE_OK again and       *)
(* leaves the timestamp list, the resource list, the stored values, the    *)
(* encoded flag and the encoded bytes as they were after the first call.   *)
C36_RepeatedAddIdempotent ==
    [][RepeatedAdd
        => /\ result' = LE_OK
           /\ RecordData(recRef') = RecordData(recRef)
           /\ recRef'.isEncoded = recRef.isEncoded
           /\ EncodedBytes(recRef') = EncodedBytes(recRef)]_vars

(* C36 witness: the string of 255 characters has been written twice in a   *)
(* row to a new record: the record holds the one value, cut to 254         *)
(* characters, and the pools hold the blocks of two                        *)
C36_Witness ==
    /\ IsAdd(call)
    /\ result = LE_OK
    /\ call.value.n = LE_AVDATA_STRING_VALUE_LEN
    /\ Len(recRef.resourceList) = 1
    /\ StoredValues(recRef, 1) = 1
    /\ HoldsThisValue(recRef, call.path, call.ts, StrValue(Str("s", LE_AVDATA_STRING_VALUE_LEN - 1)))
    /\ pool.values = 2
    /\ pool.strings = 2

(* the list is the list before without its one entry of this timestamp,    *)
(* the other entries in the order they had                                 *)
RemovedExactly(list, before, timestamp) ==
    \E i \in 1..Len(before) :
        /\ before[i] = timestamp
        /\ Len(list) = Len(before) - 1
        /\ \A k \in 1..(i - 1) : list[k] = before[k]
        /\ \A k \in i..Len(list) : list[k] = before[k + 1]

(* C37: DeleteTimestamp, called for a timestamp of the list, returns, and  *)
(* when it returns the list is the list it was called with less that one   *)
(* entry, the other entries being in the order they had, whatever the      *)
(* length of the list, the place of the entry and the resource list.       *)
C37_DeleteTimestampTerminates ==
    (loop.fn = "DeleteTimestamp")
    ~> (/\ loop.fn = "returned"
        /\ RemovedExactly(recRef.timestampList, loop.before, loop.timestamp))

(* C37 witness: DeleteTimestamp has returned from a list of three entries  *)
(* whose last one it removed, the record holding a resource                *)
C37_Witness ==
    /\ loop.fn = "returned"
    /\ Len(loop.before) = 3
    /\ loop.before[3] = loop.timestamp
    /\ Len(recRef.timestampList) = 2
    /\ recRef.resourceList # <<>>

====
